---- MODULE Spec2Model ----
(***************************************************************************)
(* A model of hooch-http: the URI matcher (Uri::is_match), the query       *)
(* parser (Uri::parse_segment), the wire parser (HttpRequest::from_bytes), *)
(* the fixed-capacity stores and the parameter iterators of                *)
(* src/src/request.rs, the dispatcher (HoochApp::handle_stream) of         *)
(* src/src/app.rs and the response serializer of src/src/response.rs.      *)
(*                                                                         *)
(* Text is a sequence of one-character strings; every modelled character   *)
(* is ASCII, so a byte index and a char index are the same number.         *)
(* Indices keep the source's 0-based values; Slice(s, a, b) is s[a..b].    *)
(* Option<T> is a sequence: <<>> is None, <<v>> is Some(v).                *)
(* A Rust panic (unwrap on None, index or slice out of range, panic!) is   *)
(* an outcome of its own, "Panic".                                         *)
(***************************************************************************)
EXTENDS Integers, Sequences, FiniteSets, TLC

(***************************************************************************)
(* Bounds of the model.                                                    *)
(***************************************************************************)
MaxUriLen == 5
MaxPatTokens == 3
MaxQueryLen == 6
MaxHeaderLines == 2

(***************************************************************************)
(* Program constants.                                                      *)
(***************************************************************************)
SegmentCapacity == 1024
MAX_NUM_HEADERS == 1000

VARIABLES
    pc,             \* the caller's position: the function it calls, or "returned"
    uri,            \* Uri.0: the concrete URI is_match is called on
    cmp_uri,        \* the route pattern handed to is_match
    m,              \* the locals of one is_match call, and its position
    segment_part,   \* the query string handed to parse_segment
    segment,        \* what parse_segment returned
    bytes,          \* the buffer handed to HttpRequest::from_bytes
    request,        \* what from_bytes produced
    app,            \* HoochApp: the middleware and the routes it was built with
    task,           \* one handle_stream task: its position, locals and stream
    header_store,   \* a Headers value that add_key_value is called on
    response,       \* an HttpResponse
    buffer,         \* the Vec<u8> that HttpResponse::serialize writes into
    owned,          \* the Params a handler owns and iterates
    yielded,        \* what the iterator returned since the last iter_path / iter_query
    tasks,          \* the handle_stream tasks that serve spawned, in accept order
    responses,      \* for each of them the HttpResponse it is about to write, if any
    worker          \* the runtime that polls the tasks: "running" or "down"

vars == <<pc, uri, cmp_uri, m, segment_part, segment, bytes, request,
          app, task, header_store, response, buffer, owned, yielded,
          tasks, responses, worker>>

\* the variables of the URI matcher and the two parsers
parseVars == <<pc, uri, cmp_uri, m, segment_part, segment, bytes, request>>

\* the variables of the dispatcher, the stores, the response and the iterators
serveVars == <<app, task, header_store, response, buffer, owned, yielded,
               tasks, responses, worker>>

\* the variables of the accept loop and the tasks it spawned
connVars == <<tasks, responses, worker>>

(***************************************************************************)
(* Slices and the std string operations the code uses.                     *)
(***************************************************************************)
Slice(s, from, to) == SubSeq(s, from + 1, to)

SliceInBounds(s, from, to) == from <= to /\ to <= Len(s)

Contains(s, c) == \E i \in 1..Len(s) : s[i] = c

RECURSIVE Position(_, _, _)
Position(s, c, from) ==
    IF from >= Len(s) THEN Len(s)
    ELSE IF s[from + 1] = c THEN from
    ELSE Position(s, c, from + 1)

RECURSIVE Split(_, _)
Split(s, sep) ==
    LET at == Position(s, sep, 0)
    IN  IF at = Len(s) THEN <<s>>
        ELSE <<Slice(s, 0, at)>> \o Split(Slice(s, at + 1, Len(s)), sep)

\* split in place of splitn(2, ..): the value ends at the next separator
SplitEvery(s, sep) == Split(s, sep)

Splitn2(s, sep) ==
    LET at == Position(s, sep, 0)
    IN  IF at = Len(s) THEN <<s>>
        ELSE <<Slice(s, 0, at), Slice(s, at + 1, Len(s))>>

Last(seq) == seq[Len(seq)]

(***************************************************************************)
(* Segment<'a, T>: key and value arrays of Option<&str>, the count num and *)
(* the iteration position iter_cnt.  Only the written prefix of each array *)
(* is kept; every slot beyond it is None.  oob records that a write went   *)
(* past the end of the arrays, which panics.                               *)
(***************************************************************************)
SegmentNew == [key |-> <<>>, value |-> <<>>, num |-> 0, iter_cnt |-> 0, oob |-> FALSE]

ArraySet(arr, i, v) ==
    [j \in 1..(IF i + 1 > Len(arr) THEN i + 1 ELSE Len(arr)) |->
        IF j = i + 1 THEN v ELSE IF j <= Len(arr) THEN arr[j] ELSE <<>>]

insert_key_value(seg, key, value) ==
    IF seg.oob \/ seg.num >= SegmentCapacity THEN [seg EXCEPT !.oob = TRUE]
    ELSE [seg EXCEPT !.key = ArraySet(seg.key, seg.num, <<key>>),
                     !.value = ArraySet(seg.value, seg.num, value),
                     !.num = seg.num + 1]

\* the key counted as an entry before its value is known
insert_key_counted(seg, key) ==
    IF seg.oob \/ seg.num >= SegmentCapacity THEN [seg EXCEPT !.oob = TRUE]
    ELSE [seg EXCEPT !.key = ArraySet(seg.key, seg.num, <<key>>),
                     !.num = seg.num + 1]

insert_key(seg, key) ==
    IF seg.oob \/ seg.num >= SegmentCapacity THEN [seg EXCEPT !.oob = TRUE]
    ELSE [seg EXCEPT !.key = ArraySet(seg.key, seg.num, <<key>>)]

insert_value(seg, value) ==
    IF seg.oob \/ seg.num >= SegmentCapacity THEN [seg EXCEPT !.oob = TRUE]
    ELSE [seg EXCEPT !.value = ArraySet(seg.value, seg.num, value),
                     !.num = seg.num + 1]

\* iter_cnt left where the last iteration stopped
iter_keeps_position(seg) == seg

\* Segment::iter: reset the iteration counter
Segment_iter(seg) == [seg EXCEPT !.iter_cnt = 0]

\* Iterator::next for Segment<PathSegment>: the segment after the call and
\* what it returned; unwrap of a None key or value panics
next_path(seg) ==
    IF seg.iter_cnt >= seg.num THEN [seg |-> seg, kind |-> "None", item |-> <<>>]
    ELSE IF seg.key[seg.iter_cnt + 1] = <<>> \/ seg.value[seg.iter_cnt + 1] = <<>>
    THEN [seg |-> seg, kind |-> "Panic", item |-> <<>>]
    ELSE [seg |-> [seg EXCEPT !.iter_cnt = seg.iter_cnt + 1],
          kind |-> "Some",
          item |-> <<seg.key[seg.iter_cnt + 1][1], seg.value[seg.iter_cnt + 1][1]>>]

\* Iterator::next for Segment<QuerySegment>: the value stays an Option
next_query(seg) ==
    IF seg.iter_cnt >= seg.num THEN [seg |-> seg, kind |-> "None", item |-> <<>>]
    ELSE IF seg.key[seg.iter_cnt + 1] = <<>>
    THEN [seg |-> seg, kind |-> "Panic", item |-> <<>>]
    ELSE [seg |-> [seg EXCEPT !.iter_cnt = seg.iter_cnt + 1],
          kind |-> "Some",
          item |-> <<seg.key[seg.iter_cnt + 1][1], seg.value[seg.iter_cnt + 1]>>]

(***************************************************************************)
(* Uri::parse_segment: split on '&', each fragment at its first '='.       *)
(***************************************************************************)
RECURSIVE InsertFragments(_, _)
InsertFragments(seg, fragments) ==
    IF fragments = <<>> THEN seg
    ELSE LET iter == Splitn2(Head(fragments), "=")
             key == iter[1]
             value == IF Len(iter) > 1 THEN <<iter[2]>> ELSE <<>>
         IN  InsertFragments(insert_key_value(seg, key, value), Tail(fragments))

parse_segment(part) == InsertFragments(SegmentNew, Split(part, "&"))

(***************************************************************************)
(* Cursor: a position idx and the start of the current span start_idx.     *)
(***************************************************************************)
CursorNew == [idx |-> 0, start_idx |-> 0]

increment(cursor) == [cursor EXCEPT !.idx = cursor.idx + 1]

set_start_to_idx(cursor) == [cursor EXCEPT !.start_idx = cursor.idx]

(***************************************************************************)
(* Params and the Option<Params> that is_match returns.  kind is "Some",   *)
(* "None", or "Panic" when the call panicked instead of returning.         *)
(***************************************************************************)
ParamsNew == [path_segment |-> SegmentNew, query_fragment |-> SegmentNew]

OptionNone == [kind |-> "None", params |-> ParamsNew]

OptionSome(params) == [kind |-> "Some", params |-> params]

Panicked == [kind |-> "Panic", params |-> ParamsNew]

\* Params::iter_path and Params::iter_query
iter_path(params) == [params EXCEPT !.path_segment = Segment_iter(params.path_segment)]

iter_query(params) == [params EXCEPT !.query_fragment = Segment_iter(params.query_fragment)]

get_or_insert_default(option) ==
    IF option.kind = "Some" THEN option ELSE OptionSome(ParamsNew)

(***************************************************************************)
(* Uri::is_match, one iteration of `for (idx, c) in cmp_uri.char_indices()`*)
(* at a time.  s holds the locals; s.idx is the index of the pattern       *)
(* character the next iteration reads.  s.pc is "loop" while iterations    *)
(* remain, "after" once the loop was left (exhausted or break), "done" once *)
(* the call returned or panicked, with the returned value in s.ret.        *)
(***************************************************************************)
MatchLocals ==
    [pc |-> "loop", idx |-> 0, ret |-> OptionNone,
     path_segment |-> SegmentNew,
     start_idx |-> 0, bracket_hit |-> FALSE, bracket_hit_idx |-> 0,
     record_uri_char |-> FALSE, end_with_value |-> FALSE,
     cursor_uri |-> CursorNew, cursor_cmp_uri |-> CursorNew]

Idle == [MatchLocals EXCEPT !.pc = "idle"]

Return(s, option) == [s EXCEPT !.pc = "done", !.ret = option]

\* the `while c_uri != c` scan: pos is the index of c_uri, which is also
\* the cursor; the scan stops on c or on the last character of the URI
\* the cursor advanced before the comparison: the scan ends one past c
RECURSIVE ScanPast(_, _, _)
ScanPast(u, pos, c) ==
    IF pos + 1 >= Len(u) THEN pos
    ELSE IF u[pos + 1] = c THEN pos + 1
    ELSE ScanPast(u, pos + 1, c)

RECURSIVE ScanUntil(_, _, _)
ScanUntil(u, pos, c) ==
    IF u[pos + 1] = c THEN pos
    ELSE IF pos + 1 >= Len(u) THEN pos
    ELSE ScanUntil(u, pos + 1, c)

\* `if record_uri_char { ... }`: capture the value of the placeholder that
\* closed on the previous pattern character
RecordValue(u, c, s) ==
    LET s1 == [s EXCEPT !.end_with_value = FALSE,
                        !.cursor_cmp_uri = set_start_to_idx(s.cursor_cmp_uri)]
        start_idx_uri == s.cursor_uri.idx
    IN  IF start_idx_uri >= Len(u) THEN [s1 EXCEPT !.pc = "after"]
        ELSE LET end_idx_uri == ScanUntil(u, start_idx_uri, c)
                 seg == insert_value(s1.path_segment,
                                     <<Slice(u, start_idx_uri, end_idx_uri)>>)
             IN  IF seg.oob THEN Return(s1, Panicked)
                 ELSE [s1 EXCEPT !.path_segment = seg,
                                 !.cursor_uri = [idx |-> end_idx_uri,
                                                 start_idx |-> end_idx_uri],
                                 !.record_uri_char = FALSE]

\* `if c == '{' { ... }`: the literal span since the last checkpoint must
\* equal the span of the URI; slicing the URI past its end panics
BracketOpen(u, p, s) ==
    IF ~SliceInBounds(u, s.cursor_uri.start_idx, s.cursor_uri.idx)
    THEN Return(s, Panicked)
    ELSE IF Slice(p, s.cursor_cmp_uri.start_idx, s.cursor_cmp_uri.idx)
            # Slice(u, s.cursor_uri.start_idx, s.cursor_uri.idx)
    THEN Return(s, OptionNone)
    ELSE [s EXCEPT !.bracket_hit = TRUE, !.bracket_hit_idx = s.idx]

\* `if bracket_hit { ... continue; }` and the cursor advance after it
Advance(p, c, s) ==
    IF s.bracket_hit
    THEN LET s1 == IF c = "}"
                   THEN LET seg == insert_key(s.path_segment,
                                              Slice(p, s.bracket_hit_idx + 1, s.idx))
                        IN  IF seg.oob THEN Return(s, Panicked)
                            ELSE [s EXCEPT !.bracket_hit = FALSE,
                                           !.start_idx = s.idx + 1,
                                           !.record_uri_char = TRUE,
                                           !.end_with_value = TRUE,
                                           !.path_segment = seg,
                                           !.cursor_cmp_uri =
                                               set_start_to_idx(s.cursor_cmp_uri)]
                   ELSE s
         IN  IF s1.pc # "loop" THEN s1
             ELSE [s1 EXCEPT !.cursor_cmp_uri = increment(s1.cursor_cmp_uri)]
    ELSE [s EXCEPT !.cursor_uri = increment(s.cursor_uri),
                   !.cursor_cmp_uri = increment(s.cursor_cmp_uri)]

LoopBody(u, p, s) ==
    LET c == p[s.idx + 1]
        s1 == IF s.record_uri_char THEN RecordValue(u, c, s) ELSE s
        s2 == IF s1.pc = "loop" /\ c = "{" THEN BracketOpen(u, p, s1) ELSE s1
        s3 == IF s2.pc = "loop" THEN Advance(p, c, s2) ELSE s2
    IN  IF s3.pc # "loop" THEN s3
        ELSE IF s3.idx + 1 >= Len(p) THEN [s3 EXCEPT !.pc = "after", !.idx = s3.idx + 1]
        ELSE [s3 EXCEPT !.idx = s3.idx + 1]

\* `self.0.split('?').last()`
QueryFragment(u) == Last(Split(u, "?"))

\* the end of the last placeholder's value: the index of the first '?',
\* or the length of the URI
EndIdx(u) == Position(u, "?", 0)

\* everything after the loop: the query string, the value of a placeholder
\* that ends the pattern, and the comparison of the trailing literal text
AfterLoop(u, p, s) ==
    LET params0 == IF Contains(u, "?")
                   THEN [get_or_insert_default(OptionNone) EXCEPT
                            !.params.query_fragment = parse_segment(QueryFragment(u))]
                   ELSE OptionNone
        end_idx == EndIdx(u)
        seg == IF s.end_with_value
               THEN insert_value(s.path_segment, <<Slice(u, s.cursor_uri.idx, end_idx)>>)
               ELSE s.path_segment
        params == IF seg.num > 0
                  THEN [get_or_insert_default(params0) EXCEPT !.params.path_segment = seg]
                  ELSE params0
    IN  IF params0.params.query_fragment.oob THEN Return(s, Panicked)
        ELSE IF s.end_with_value /\ ~SliceInBounds(u, s.cursor_uri.idx, end_idx)
        THEN Return(s, Panicked)
        ELSE IF seg.oob THEN Return(s, Panicked)
        ELSE IF s.start_idx >= Len(p) THEN Return([s EXCEPT !.path_segment = seg], params)
        ELSE IF ~SliceInBounds(u, s.cursor_uri.start_idx, Len(u))
                \/ ~SliceInBounds(p, s.cursor_cmp_uri.start_idx, Len(p))
        THEN Return(s, Panicked)
        ELSE IF Slice(u, s.cursor_uri.start_idx, Len(u))
                # Slice(p, s.cursor_cmp_uri.start_idx, Len(p))
        THEN Return([s EXCEPT !.path_segment = seg], params)
        ELSE Return([s EXCEPT !.path_segment = seg], get_or_insert_default(params))

\* the whole call, for callers that need only its value
RECURSIVE RunMatch(_, _, _)
RunMatch(u, p, s) ==
    IF s.pc = "loop" THEN RunMatch(u, p, LoopBody(u, p, s))
    ELSE IF s.pc = "after" THEN RunMatch(u, p, AfterLoop(u, p, s))
    ELSE s.ret

\* the locals at entry; an empty pattern has no iteration to run
MatchStart(p) == IF p = <<>> THEN [MatchLocals EXCEPT !.pc = "after"] ELSE MatchLocals

is_match(u, p) == RunMatch(u, p, MatchStart(p))

(***************************************************************************)
(* The wire parser.  A byte is a one-character string.                     *)
(***************************************************************************)
CARRIAGE_RETURN_LINE_FEED == <<"\r", "\n">>

CARRIAGE_RETURN_LINE_FEED_TWICE == <<"\r", "\n", "\r", "\n">>

WHITESPACE_BYTE == " "

COLON_BYTE == ":"

\* the result of a step that may panic
Ok(v) == [ok |-> TRUE, v |-> v]

Panic == [ok |-> FALSE, v |-> <<>>]

\* bytes.windows(window.len()).position(|w| w == window): <<i>> or <<>>
RECURSIVE WindowsFrom(_, _, _)
WindowsFrom(b, window, i) ==
    IF i + Len(window) > Len(b) THEN <<>>
    ELSE IF Slice(b, i, i + Len(window)) = window THEN <<i>>
    ELSE WindowsFrom(b, window, i + 1)

windows_position(b, window) == WindowsFrom(b, window, 0)

\* impl From<&[u8]> for HttpMethod
HttpMethodFrom(value) ==
    CASE value = <<"G", "E", "T">> -> Ok("GET")
      [] value = <<"H", "E", "A", "D">> -> Ok("HEAD")
      [] value = <<"O", "P", "T", "I", "O", "N", "S">> -> Ok("OPTIONS")
      [] value = <<"P", "O", "S", "T">> -> Ok("POST")
      [] value = <<"P", "U", "T">> -> Ok("PUT")
      [] value = <<"P", "A", "T", "C", "H">> -> Ok("PATCH")
      [] value = <<"D", "E", "L", "E", "T", "E">> -> Ok("DELETE")
      [] OTHER -> Panic

\* impl From<&[u8]> for HttpVersion
HttpVersionFrom(value) ==
    IF value = <<"H", "T", "T", "P", "/", "1", ".", "1">> THEN Ok("OnePointOne")
    ELSE Panic

get_request_line(b) ==
    LET idx == windows_position(b, CARRIAGE_RETURN_LINE_FEED)
    IN  IF idx = <<>> THEN Panic ELSE Ok(Slice(b, 0, idx[1]))

get_headers(b) ==
    LET first == windows_position(b, CARRIAGE_RETURN_LINE_FEED)
    IN  IF first = <<>> THEN Panic
        ELSE LET idx == first[1] + Len(CARRIAGE_RETURN_LINE_FEED)
                 header_bytes_idx ==
                     windows_position(Slice(b, idx, Len(b)),
                                      CARRIAGE_RETURN_LINE_FEED_TWICE)
             IN  IF header_bytes_idx = <<>> THEN Panic
                 ELSE Ok(Slice(b, idx, header_bytes_idx[1] + idx))

get_body(b) ==
    LET found == windows_position(b, CARRIAGE_RETURN_LINE_FEED_TWICE)
    IN  IF found = <<>> THEN Panic
        ELSE Ok(Slice(b, found[1] + Len(CARRIAGE_RETURN_LINE_FEED_TWICE), Len(b)))

\* the n-th item of bytes.split(|b| *b == WHITESPACE_BYTE), unwrapped
NthToken(line, n) ==
    LET tokens == Split(line, WHITESPACE_BYTE)
    IN  IF Len(tokens) < n THEN Panic ELSE Ok(tokens[n])

extract_http_method(line) ==
    LET token == NthToken(line, 1)
    IN  IF ~token.ok THEN Panic ELSE HttpMethodFrom(token.v)

extract_request_uri(line) == NthToken(line, 2)

extract_http_version(line) ==
    LET token == NthToken(line, 3)
    IN  IF ~token.ok THEN Panic ELSE HttpVersionFrom(token.v)

(***************************************************************************)
(* Headers<'a>: the keys and values arrays and the count num; oob as for   *)
(* Segment.                                                                *)
(***************************************************************************)
HeadersNew == [keys |-> <<>>, values |-> <<>>, num |-> 0, oob |-> FALSE]

add_key_value(headers, key, value) ==
    IF headers.oob \/ headers.num >= MAX_NUM_HEADERS THEN [headers EXCEPT !.oob = TRUE]
    ELSE [headers EXCEPT !.keys = ArraySet(headers.keys, headers.num, <<key>>),
                         !.values = ArraySet(headers.values, headers.num, <<value>>),
                         !.num = headers.num + 1]

\* one header line: the key before the first colon, the value after it and
\* after one space; indexing the byte after a final colon panics
get_header_key_and_value(line) ==
    LET colon_idx == Position(line, COLON_BYTE, 0)
    IN  IF colon_idx = Len(line) THEN Panic
        ELSE IF colon_idx + 1 >= Len(line) THEN Panic
        ELSE LET whitespace_offset ==
                     IF line[colon_idx + 2] = WHITESPACE_BYTE THEN 1 ELSE 0
             IN  Ok([key |-> Slice(line, 0, colon_idx),
                     value |-> Slice(line, colon_idx + 1 + whitespace_offset, Len(line))])

RECURSIVE HeadersLoop(_, _, _)
HeadersLoop(b, start_idx, headers) ==
    LET carriage_return_idx ==
            windows_position(Slice(b, start_idx, Len(b)), CARRIAGE_RETURN_LINE_FEED)
        line == IF carriage_return_idx = <<>> THEN Slice(b, start_idx, Len(b))
                ELSE Slice(b, start_idx, carriage_return_idx[1] + start_idx)
        kv == get_header_key_and_value(line)
        added == add_key_value(headers, kv.v.key, kv.v.value)
    IN  IF ~kv.ok THEN Panic
        ELSE IF added.oob THEN Panic
        ELSE IF carriage_return_idx = <<>> THEN Ok(added)
        ELSE HeadersLoop(b, start_idx + carriage_return_idx[1]
                                + Len(CARRIAGE_RETURN_LINE_FEED), added)

extract_headers(b) == HeadersLoop(b, 0, HeadersNew)

(***************************************************************************)
(* HttpRequest::from_bytes.  kind is "Ok" with the parsed fields, or       *)
(* "Panic"; the function has no other way to end.                          *)
(***************************************************************************)
RequestPanic ==
    [kind |-> "Panic", method |-> "", uri |-> <<>>, version |-> "",
     headers |-> HeadersNew, body |-> <<>>]

NoRequest == [RequestPanic EXCEPT !.kind = "None"]

from_bytes(b) ==
    LET request_line == get_request_line(b)
        http_method == extract_http_method(request_line.v)
        http_version == extract_http_version(request_line.v)
        uri_ == extract_request_uri(request_line.v)
        header_bytes == get_headers(b)
        headers == extract_headers(header_bytes.v)
        body == get_body(b)
    IN  IF ~request_line.ok THEN RequestPanic
        ELSE IF ~http_method.ok THEN RequestPanic
        ELSE IF ~http_version.ok THEN RequestPanic
        ELSE IF ~uri_.ok THEN RequestPanic
        ELSE IF ~header_bytes.ok THEN RequestPanic
        ELSE IF ~headers.ok THEN RequestPanic
        ELSE IF ~body.ok THEN RequestPanic
        ELSE [kind |-> "Ok", method |-> http_method.v, uri |-> uri_.v,
              version |-> http_version.v, headers |-> headers.v, body |-> body.v]

(***************************************************************************)
(* src/src/response.rs: HttpStatus, HttpResponseBuilder and HttpResponse.  *)
(* A HashMap of headers is a set of <<key, value>> pairs with distinct     *)
(* keys; its iteration order is not determined.                            *)
(***************************************************************************)
HttpStatus ==
    {"Ok", "Created", "NoContent", "BadRequest", "Unauthorized", "Forbidden",
     "NotFound", "InternalServerError", "BadGateway", "ServiceUnavailable"}

\* impl From<HttpStatus> for u16
StatusCode(status) ==
    CASE status = "Ok" -> 200
      [] status = "Created" -> 201
      [] status = "NoContent" -> 204
      [] status = "BadRequest" -> 400
      [] status = "Unauthorized" -> 401
      [] status = "Forbidden" -> 403
      [] status = "NotFound" -> 404
      [] status = "InternalServerError" -> 500
      [] status = "BadGateway" -> 502
      [] status = "ServiceUnavailable" -> 503

\* impl From<HttpStatus> for &'static str
StatusReason(status) ==
    CASE status = "Ok" ->
            <<"O", "K">>
      [] status = "Created" ->
            <<"C", "r", "e", "a", "t", "e", "d">>
      [] status = "NoContent" ->
            <<"N", "o", " ", "C", "o", "n", "t", "e", "n", "t">>
      [] status = "BadRequest" ->
            <<"B", "a", "d", " ", "R", "e", "q", "u", "e", "s", "t">>
      [] status = "Unauthorized" ->
            <<"U", "n", "a", "u", "t", "h", "o", "r", "i", "z", "e", "d">>
      [] status = "Forbidden" ->
            <<"F", "o", "r", "b", "i", "d", "d", "e", "n">>
      [] status = "NotFound" ->
            <<"N", "o", "t", " ", "F", "o", "u", "n", "d">>
      [] status = "InternalServerError" ->
            <<"I", "n", "t", "e", "r", "n", "a", "l", " ", "S", "e", "r", "v", "e", "r", " ", "E", "r", "r", "o", "r">>
      [] status = "BadGateway" ->
            <<"B", "a", "d", " ", "G", "a", "t", "e", "w", "a", "y">>
      [] status = "ServiceUnavailable" ->
            <<"S", "e", "r", "v", "i", "c", "e", " ", "U", "n", "a", "v", "a", "i", "l", "a", "b", "l", "e">>

\* impl From<HttpVersion> for &'static str
HttpVersionStr(version) ==
    CASE version = "OnePointOne" -> <<"H", "T", "T", "P", "/", "1", ".", "1">>

\* Display for an unsigned integer: its decimal digits
Digit(d) ==
    CASE d = 0 -> "0" [] d = 1 -> "1" [] d = 2 -> "2" [] d = 3 -> "3" [] d = 4 -> "4"
      [] d = 5 -> "5" [] d = 6 -> "6" [] d = 7 -> "7" [] d = 8 -> "8" [] d = 9 -> "9"

RECURSIVE Decimal(_)
Decimal(n) == IF n < 10 THEN <<Digit(n)>> ELSE Decimal(n \div 10) \o <<Digit(n % 10)>>

\* HttpResponseBuilder::new and its setters; protocal, headers and body are
\* Options
BuilderNew(status) ==
    [status |-> status, protocal |-> <<>>, headers |-> <<>>, body |-> <<>>]

protocal(builder, version) == [builder EXCEPT !.protocal = <<version>>]

with_headers(builder, map) == [builder EXCEPT !.headers = <<map>>]

with_body(builder, text) == [builder EXCEPT !.body = <<text>>]

not_found == BuilderNew("NotFound")

build(builder) ==
    [status |-> builder.status,
     protocal |-> IF builder.protocal = <<>> THEN "OnePointOne" ELSE builder.protocal[1],
     headers |-> builder.headers,
     body |-> builder.body]

\* the sequences that enumerate a map once: the orders iter() can take
IterOrders(map) ==
    {order \in [1..Cardinality(map) -> map] :
        \A i, j \in 1..Cardinality(map) : i # j => order[i] # order[j]}

StatusLine(self) ==
    HttpVersionStr(self.protocal) \o <<" ">>
        \o (Decimal(StatusCode(self.status)) \o <<" ">> \o StatusReason(self.status))
        \o <<"\r", "\n">>

RECURSIVE HeaderLines(_)
HeaderLines(order) ==
    IF order = <<>> THEN <<>>
    ELSE Head(order)[1] \o <<":", " ">> \o Head(order)[2] \o <<"\r", "\n">>
             \o HeaderLines(Tail(order))

\* the blank line written only after a header: none when there is no header
serialize_blank_after_headers(self, buf, order) ==
    buf \o StatusLine(self)
        \o (IF self.headers = <<>> \/ order = <<>> THEN <<>>
            ELSE HeaderLines(order) \o <<"\r", "\n">>)
        \o (IF self.body = <<>> THEN <<>> ELSE self.body[1])

\* HttpResponse::serialize(self, buffer), the headers iterated in order
serialize(self, buf, order) ==
    buf \o StatusLine(self)
        \o (IF self.headers = <<>> THEN <<>> ELSE HeaderLines(order))
        \o <<"\r", "\n">>
        \o (IF self.body = <<>> THEN <<>> ELSE self.body[1])

(***************************************************************************)
(* src/src/app.rs: HoochApp::handle_stream, one step per await or loop     *)
(* iteration.  A middleware and a handler are the caller's functions: a    *)
(* middleware is modelled by what it returns (kind), a handler by the      *)
(* route it belongs to.  The stream's read and write succeed.              *)
(***************************************************************************)
\* what middleware `kind` returns on request req
MiddlewareOutcome(kind, req) ==
    CASE kind = "Continue" -> [kind |-> "Continue", req |-> req, response |-> <<>>]
      [] kind = "SetPost" ->
            [kind |-> "Continue", req |-> [req EXCEPT !.method = "POST"], response |-> <<>>]
      [] kind = "ShortCircuit" ->
            [kind |-> "ShortCircuit", req |-> req,
             response |-> <<build(with_body(BuilderNew("Forbidden"), <<"n", "o">>))>>]

\* the response of the handler of the i-th route (0-based)
HandlerResponse(i) == build(with_body(BuilderNew("Ok"), <<Digit(i)>>))

\* http_request.method(), the method field of the request
request_method(req) == req.method

\* the locals of handle_stream at entry.  buffer is the array the request
\* is read into: the bytes read into it, and whether the local still exists
\* (it ends with the call, by return or by unwinding)
TaskNew(incoming) ==
    [pc |-> "read",
     stream |-> [incoming |-> incoming, reads |-> 0, written |-> <<>>],
     buffer |-> [live |-> TRUE, data |-> <<>>],
     http_request |-> NoRequest,
     mid_idx |-> 0,
     route_idx |-> 0,
     mid_calls |-> <<>>,
     matched |-> <<>>,
     handler_calls |-> <<>>]

\* the position after i middleware continued
AfterMiddleware(middleware_fns, i) ==
    IF i < Len(middleware_fns) THEN "middleware" ELSE "routes"

\* stream.read(&mut buffer)
ReadStream(t) ==
    [t EXCEPT !.stream.reads = t.stream.reads + 1,
              !.buffer.data = t.stream.incoming,
              !.pc = "parse"]

\* the buffer a local of a block that ends once the request is parsed
ParsedBufferReleased(t, middleware_fns, req) ==
    IF req.kind = "Panic" THEN [t EXCEPT !.pc = "panicked", !.buffer.live = FALSE]
    ELSE [t EXCEPT !.http_request = req, !.buffer.live = FALSE,
                   !.pc = AfterMiddleware(middleware_fns, 0)]

\* HttpRequest::from_bytes(&buffer[..bytes_read]) returned req, or panicked
Parsed(t, middleware_fns, req) ==
    IF req.kind = "Panic" THEN [t EXCEPT !.pc = "panicked", !.buffer.live = FALSE]
    ELSE [t EXCEPT !.http_request = req, !.pc = AfterMiddleware(middleware_fns, 0)]

\* ShortCircuit without its return: the loop goes on with the same request
MiddlewareStepNoReturn(t, middleware_fns) ==
    LET called == [t EXCEPT !.mid_calls = Append(t.mid_calls,
                                                 [mid |-> t.mid_idx, req |-> t.http_request]),
                            !.mid_idx = t.mid_idx + 1]
    IN  [called EXCEPT !.http_request =
                           MiddlewareOutcome(middleware_fns[t.mid_idx + 1], t.http_request).req,
                       !.pc = AfterMiddleware(middleware_fns, t.mid_idx + 1)]

\* Continue(req) without http_request = req: the next one gets the old request
MiddlewareStepKeepsRequest(t, middleware_fns) ==
    LET middleware == MiddlewareOutcome(middleware_fns[t.mid_idx + 1], t.http_request)
        called == [t EXCEPT !.mid_calls = Append(t.mid_calls,
                                                 [mid |-> t.mid_idx, req |-> t.http_request]),
                            !.mid_idx = t.mid_idx + 1]
    IN  IF middleware.kind = "Continue"
        THEN [called EXCEPT !.pc = AfterMiddleware(middleware_fns, t.mid_idx + 1)]
        ELSE [called EXCEPT !.pc = "respond"]

\* one iteration of for mid in middleware_fns.iter()
MiddlewareStep(t, middleware_fns) ==
    LET middleware == MiddlewareOutcome(middleware_fns[t.mid_idx + 1], t.http_request)
        called == [t EXCEPT !.mid_calls = Append(t.mid_calls,
                                                 [mid |-> t.mid_idx, req |-> t.http_request]),
                            !.mid_idx = t.mid_idx + 1]
    IN  IF middleware.kind = "Continue"
        THEN [called EXCEPT !.http_request = middleware.req,
                            !.pc = AfterMiddleware(middleware_fns, t.mid_idx + 1)]
        ELSE [called EXCEPT !.pc = "respond"]

\* the response MiddlewareStep hands to handle_http_response, if any
MiddlewareResponse(t, middleware_fns) ==
    MiddlewareOutcome(middleware_fns[t.mid_idx + 1], t.http_request).response

\* the match computed once, against the pattern of the first route, and
\* its Params handed to whichever handler is selected
RouteStepFirstPattern(t, routes) ==
    LET route == routes[t.route_idx + 1]
        param == is_match(t.http_request.uri, route.path)
        first == is_match(t.http_request.uri, routes[1].path)
        tried == [t EXCEPT !.matched = Append(t.matched,
                                              [route |-> t.route_idx,
                                               uri |-> t.http_request.uri])]
    IN  IF param.kind = "Panic" THEN [tried EXCEPT !.pc = "panicked", !.buffer.live = FALSE]
        ELSE IF param.kind = "Some" /\ route.method = request_method(t.http_request)
        THEN [tried EXCEPT !.handler_calls =
                               Append(t.handler_calls,
                                      [route |-> t.route_idx, req |-> t.http_request,
                                       params |-> first.params]),
                           !.pc = "respond"]
        ELSE [tried EXCEPT !.route_idx = t.route_idx + 1]

\* one iteration of for route in routes.iter()
RouteStep(t, routes) ==
    LET route == routes[t.route_idx + 1]
        param == is_match(t.http_request.uri, route.path)
        tried == [t EXCEPT !.matched = Append(t.matched,
                                              [route |-> t.route_idx,
                                               uri |-> t.http_request.uri])]
    IN  IF param.kind = "Panic" THEN [tried EXCEPT !.pc = "panicked", !.buffer.live = FALSE]
        ELSE IF param.kind = "Some" /\ route.method = request_method(t.http_request)
        THEN [tried EXCEPT !.handler_calls =
                               Append(t.handler_calls,
                                      [route |-> t.route_idx, req |-> t.http_request,
                                       params |-> param.params]),
                           !.pc = "respond"]
        ELSE [tried EXCEPT !.route_idx = t.route_idx + 1]

\* the status line and the rest written by two calls of stream.write
handle_http_response_in_two_writes(t, http_response, order) ==
    [t EXCEPT !.stream.written =
                  t.stream.written \o <<StatusLine(http_response),
                                        serialize(http_response, <<>>, order)>>,
              !.buffer.live = FALSE,
              !.pc = "done"]

\* handle_http_response: serialize into an empty Vec, write it to the
\* stream; handle_stream returns with it and its locals end
handle_http_response(t, http_response, order) ==
    [t EXCEPT !.stream.written = Append(t.stream.written, serialize(http_response, <<>>, order)),
              !.buffer.live = FALSE,
              !.pc = "done"]

(***************************************************************************)
(* The values of the variables a specification does not use.               *)
(***************************************************************************)
NoApp == [middleware |-> <<>>, routes |-> <<>>]

NoTask == [TaskNew(<<>>) EXCEPT !.pc = "none"]

NoResponse == [BuilderNew("none") EXCEPT !.protocal = "none"]

NoYield == <<>>

ConnIdle ==
    /\ tasks = <<>>
    /\ responses = <<>>
    /\ worker = "running"

ServeIdle ==
    /\ app = NoApp
    /\ task = NoTask
    /\ ConnIdle
    /\ header_store = HeadersNew
    /\ response = NoResponse
    /\ buffer = <<>>
    /\ owned = ParamsNew
    /\ yielded = NoYield

(***************************************************************************)
(* The inputs.  A URI is any text over UriAlphabet; a pattern is literal   *)
(* text with placeholders {x}, {y}.                                        *)
(***************************************************************************)
UriAlphabet == {"/", "a", "?"}

PatternTokens == {<<"/">>, <<"a">>, <<"{", "x", "}">>, <<"{", "y", "}">>}

SeqsUpTo(S, n) == UNION {[1..k -> S] : k \in 0..n}

RECURSIVE Flatten(_)
Flatten(seqs) == IF seqs = <<>> THEN <<>> ELSE Head(seqs) \o Flatten(Tail(seqs))

UriInputs == SeqsUpTo(UriAlphabet, MaxUriLen)

PatternInputs == {Flatten(ts) : ts \in SeqsUpTo(PatternTokens, MaxPatTokens)}

(***************************************************************************)
(* SpecMatch: one call uri.is_match(cmp_uri), for every URI and pattern.   *)
(***************************************************************************)
NoText == <<>>

InitMatch ==
    /\ pc = "is_match"
    /\ uri \in UriInputs
    /\ cmp_uri \in PatternInputs
    /\ m = MatchStart(cmp_uri)
    /\ segment_part = NoText
    /\ segment = SegmentNew
    /\ bytes = NoText
    /\ request = NoRequest
    /\ ServeIdle

Iterate ==
    /\ m.pc = "loop"
    /\ m' = LoopBody(uri, cmp_uri, m)
    /\ UNCHANGED <<pc, uri, cmp_uri, segment_part, segment, bytes, request>>
    /\ UNCHANGED serveVars

Finish ==
    /\ m.pc = "after"
    /\ m' = AfterLoop(uri, cmp_uri, m)
    /\ UNCHANGED <<pc, uri, cmp_uri, segment_part, segment, bytes, request>>
    /\ UNCHANGED serveVars

NextMatch == Iterate \/ Finish

SpecMatch == InitMatch /\ [][NextMatch]_vars

(***************************************************************************)
(* SpecQuery: one call Uri::parse_segment(segment_part), for every query   *)
(* string over QueryAlphabet.                                              *)
(***************************************************************************)
QueryAlphabet == {"a", "b", "&", "="}

QueryInputs == SeqsUpTo(QueryAlphabet, MaxQueryLen)

InitQuery ==
    /\ pc = "parse_segment"
    /\ segment_part \in QueryInputs
    /\ segment = SegmentNew
    /\ uri = NoText
    /\ cmp_uri = NoText
    /\ m = Idle
    /\ bytes = NoText
    /\ request = NoRequest
    /\ ServeIdle

ParseSegment ==
    /\ pc = "parse_segment"
    /\ segment' = parse_segment(segment_part)
    /\ pc' = "returned"
    /\ UNCHANGED <<uri, cmp_uri, m, segment_part, bytes, request>>
    /\ UNCHANGED serveVars

NextQuery == ParseSegment

SpecQuery == InitQuery /\ [][NextQuery]_vars

(***************************************************************************)
(* SpecParse: one call HttpRequest::from_bytes(bytes), for every buffer    *)
(* assembled from a request line, up to MaxHeaderLines header lines and a  *)
(* body, well-formed or not.                                               *)
(***************************************************************************)
RECURSIVE Join(_, _)
Join(seqs, sep) ==
    IF seqs = <<>> THEN <<>>
    ELSE IF Len(seqs) = 1 THEN Head(seqs)
    ELSE Head(seqs) \o sep \o Join(Tail(seqs), sep)

MethodTokens == {<<"G", "E", "T">>, <<"P", "O", "S", "T">>}

UriTokens == {<<"/">>, <<"/", "a", "?", "a">>}

Http11 == <<"H", "T", "T", "P", "/", "1", ".", "1">>

GoodRequestLines ==
    {Join(<<method, u, Http11>>, <<" ">>) : method \in MethodTokens, u \in UriTokens}

BadRequestLines ==
    { Join(<<<<"G", "O", "T">>, <<"/">>, Http11>>, <<" ">>),
      Join(<<<<"G", "E", "T">>, <<"/">>, <<"H", "T", "T", "P", "/", "2">>>>, <<" ">>),
      Join(<<<<"G", "E", "T">>, <<"/">>>>, <<" ">>),
      <<"G", "E", "T">>,
      Join(<<<<"G", "E", "T">>, <<"/">>, Http11, <<"x">>>>, <<" ">>) }

GoodHeaderLines ==
    { <<"H", ":", " ", "v">>, <<"H", ":", "v">>, <<"K", ":", " ", "a", ":", "b">>,
      <<"K", ":", " ", " ", "v">>, <<"E", ":">> }

BadHeaderLines == { <<"H", "v">> }

BodyInputs == { <<>>, <<"b">>, <<"b", "\r", "\n", "\r", "\n", "b">> }

\* request line CRLF, the header lines each ended by CRLF, a blank CRLF, body
Wire(line, header_lines, body) ==
    line \o CARRIAGE_RETURN_LINE_FEED
         \o Flatten([i \in 1..Len(header_lines) |->
                        header_lines[i] \o CARRIAGE_RETURN_LINE_FEED])
         \o CARRIAGE_RETURN_LINE_FEED \o body

\* the same without the blank line and the body
Unterminated(line, header_lines) ==
    line \o CARRIAGE_RETURN_LINE_FEED \o Join(header_lines, CARRIAGE_RETURN_LINE_FEED)

RequestLineInputs == GoodRequestLines \cup BadRequestLines

HeaderBlockInputs == SeqsUpTo(GoodHeaderLines \cup BadHeaderLines, MaxHeaderLines)

BytesInputs ==
    {Wire(line, hs, body) : line \in RequestLineInputs, hs \in HeaderBlockInputs,
                            body \in BodyInputs}
    \cup {Unterminated(line, hs) : line \in RequestLineInputs, hs \in HeaderBlockInputs}
    \cup RequestLineInputs

InitParse ==
    /\ pc = "from_bytes"
    /\ bytes \in BytesInputs
    /\ request = NoRequest
    /\ uri = NoText
    /\ cmp_uri = NoText
    /\ m = Idle
    /\ segment_part = NoText
    /\ segment = SegmentNew
    /\ ServeIdle

FromBytes ==
    /\ pc = "from_bytes"
    /\ request' = from_bytes(bytes)
    /\ pc' = "returned"
    /\ UNCHANGED <<uri, cmp_uri, m, segment_part, segment, bytes>>
    /\ UNCHANGED serveVars

NextParse == FromBytes

SpecParse == InitParse /\ [][NextParse]_vars

(***************************************************************************)
(* SpecStore: insertions, one after the other, into one Headers value or   *)
(* into one Segment, up to and at its capacity.  An insertion that         *)
(* panicked ends the sequence.  Every entry is the same key and value:     *)
(* the stores do not look at them.  A segment is filled as the code fills  *)
(* it: by insert_key_value, or by insert_key followed by insert_value.     *)
(***************************************************************************)
StoredKey == <<"k">>

StoredValue == <<"v">>

InitStore ==
    /\ pc \in {"Headers", "Segment"}
    /\ header_store = HeadersNew
    /\ segment = SegmentNew
    /\ uri = NoText
    /\ cmp_uri = NoText
    /\ m = Idle
    /\ segment_part = NoText
    /\ bytes = NoText
    /\ request = NoRequest
    /\ app = NoApp
    /\ task = NoTask
    /\ ConnIdle
    /\ response = NoResponse
    /\ buffer = <<>>
    /\ owned = ParamsNew
    /\ yielded = NoYield

AddKeyValue ==
    /\ pc = "Headers"
    /\ ~header_store.oob
    /\ header_store' = add_key_value(header_store, StoredKey, StoredValue)
    /\ UNCHANGED <<pc, uri, cmp_uri, m, segment_part, segment, bytes, request,
                   connVars, app, task, response, buffer, owned, yielded>>

InsertKeyValue ==
    /\ pc = "Segment"
    /\ ~segment.oob
    /\ segment' = insert_key_value(segment, StoredKey, <<StoredValue>>)
    /\ UNCHANGED <<pc, uri, cmp_uri, m, segment_part, bytes, request, serveVars>>

\* is_match inserts a placeholder's key, then its value
InsertKey ==
    /\ pc = "Segment"
    /\ ~segment.oob
    /\ segment' = insert_key(segment, StoredKey)
    /\ pc' = "SegmentKeyed"
    /\ UNCHANGED <<uri, cmp_uri, m, segment_part, bytes, request, serveVars>>

InsertValue ==
    /\ pc = "SegmentKeyed"
    /\ ~segment.oob
    /\ segment' = insert_value(segment, <<StoredValue>>)
    /\ pc' = "Segment"
    /\ UNCHANGED <<uri, cmp_uri, m, segment_part, bytes, request, serveVars>>

NextStore == AddKeyValue \/ InsertKeyValue \/ InsertKey \/ InsertValue

SpecStore == InitStore /\ [][NextStore]_vars

(***************************************************************************)
(* SpecSerialize: a response is built with HttpResponseBuilder (new, then  *)
(* any setters, then build) and serialized into a buffer.  response holds  *)
(* the builder until build.                                                *)
(***************************************************************************)
MaxResponseHeaders == 2

ResponseHeaderKeys == {<<"A">>, <<"B", "b">>, <<"C">>}

ResponseHeaderValues == {<<"1">>, <<>>}

\* the maps of up to MaxResponseHeaders entries: one value per key
HeaderMaps ==
    {map \in SUBSET (ResponseHeaderKeys \X ResponseHeaderValues) :
        /\ Cardinality(map) <= MaxResponseHeaders
        /\ \A e1, e2 \in map : e1[1] = e2[1] => e1 = e2}

ResponseBodies == {<<>>, <<"h", "i">>}

InitSerialize ==
    /\ pc = "builder"
    /\ response \in {BuilderNew(status) : status \in HttpStatus}
    /\ buffer \in {<<>>, <<"x">>}
    /\ uri = NoText
    /\ cmp_uri = NoText
    /\ m = Idle
    /\ segment_part = NoText
    /\ segment = SegmentNew
    /\ bytes = NoText
    /\ request = NoRequest
    /\ app = NoApp
    /\ task = NoTask
    /\ ConnIdle
    /\ header_store = HeadersNew
    /\ owned = ParamsNew
    /\ yielded = NoYield

SetProtocal ==
    /\ pc = "builder"
    /\ response' = protocal(response, "OnePointOne")
    /\ UNCHANGED <<parseVars, connVars, app, task, header_store, buffer, owned, yielded>>

SetHeaders ==
    /\ pc = "builder"
    /\ \E map \in HeaderMaps : response' = with_headers(response, map)
    /\ UNCHANGED <<parseVars, connVars, app, task, header_store, buffer, owned, yielded>>

SetBody ==
    /\ pc = "builder"
    /\ \E text \in ResponseBodies : response' = with_body(response, text)
    /\ UNCHANGED <<parseVars, connVars, app, task, header_store, buffer, owned, yielded>>

Build ==
    /\ pc = "builder"
    /\ response' = build(response)
    /\ pc' = "serialize"
    /\ UNCHANGED <<uri, cmp_uri, m, segment_part, segment, bytes, request,
                   connVars, app, task, header_store, buffer, owned, yielded>>

Serialize ==
    /\ pc = "serialize"
    /\ \E order \in IterOrders(IF response.headers = <<>> THEN {} ELSE response.headers[1]) :
          buffer' = serialize(response, buffer, order)
    /\ pc' = "returned"
    /\ UNCHANGED <<uri, cmp_uri, m, segment_part, segment, bytes, request,
                   connVars, app, task, header_store, response, owned, yielded>>

NextSerialize == SetProtocal \/ SetHeaders \/ SetBody \/ Build \/ Serialize

SpecSerialize == InitSerialize /\ [][NextSerialize]_vars

(***************************************************************************)
(* SpecServe: one accepted connection handled by handle_stream, for every  *)
(* application of up to MaxMiddleware middleware and MaxRoutes routes and  *)
(* every request of ServeRequests.                                         *)
(***************************************************************************)
MaxMiddleware == 2

MaxRoutes == 2

MiddlewareKinds == {"Continue", "SetPost", "ShortCircuit"}

RoutePaths == {<<"/">>, <<"/", "{", "x", "}">>, <<"/", "a", "{", "x", "}">>}

RouteInputs == [path : RoutePaths, method : {"GET", "POST"}]

AppInputs ==
    [middleware : SeqsUpTo(MiddlewareKinds, MaxMiddleware),
     routes : SeqsUpTo(RouteInputs, MaxRoutes)]

\* what the client sends: four requests that parse, one without header
\* line and one without CRLF
ServeRequests ==
    {Wire(Join(<<method_, u, Http11>>, <<" ">>), <<<<"H", ":", " ", "v">>>>, <<>>) :
        method_ \in {<<"G", "E", "T">>},
        u \in {<<"/">>, <<"/", "a">>, <<"/", "a", "?", "a">>}}
    \cup {Wire(Join(<<<<"P", "O", "S", "T">>, <<"/">>, Http11>>, <<" ">>),
               <<<<"H", ":", " ", "v">>>>, <<"b">>),
          Wire(Join(<<<<"G", "E", "T">>, <<"/">>, Http11>>, <<" ">>), <<>>, <<>>),
          <<"G", "E", "T">>}

InitServe ==
    /\ pc = "handle_stream"
    /\ app \in AppInputs
    /\ task \in {TaskNew(incoming) : incoming \in ServeRequests}
    /\ ConnIdle
    /\ bytes = NoText
    /\ request = NoRequest
    /\ response = NoResponse
    /\ buffer = <<>>
    /\ uri = NoText
    /\ cmp_uri = NoText
    /\ m = Idle
    /\ segment_part = NoText
    /\ segment = SegmentNew
    /\ header_store = HeadersNew
    /\ owned = ParamsNew
    /\ yielded = NoYield

serveFrame == <<pc, uri, cmp_uri, m, segment_part, segment, header_store, owned, yielded,
                app, connVars>>

Read ==
    /\ task.pc = "read"
    /\ bytes' = task.stream.incoming
    /\ task' = ReadStream(task)
    /\ UNCHANGED <<serveFrame, request, response, buffer>>

Parse ==
    /\ task.pc = "parse"
    /\ request' = from_bytes(bytes)
    /\ task' = Parsed(task, app.middleware, request')
    /\ UNCHANGED <<serveFrame, bytes, response, buffer>>

CallMiddleware ==
    /\ task.pc = "middleware"
    /\ task' = MiddlewareStep(task, app.middleware)
    /\ response' = IF MiddlewareResponse(task, app.middleware) # <<>> /\ task'.pc = "respond"
                   THEN MiddlewareResponse(task, app.middleware)[1] ELSE response
    /\ UNCHANGED <<serveFrame, bytes, request, buffer>>

MatchRoute ==
    /\ task.pc = "routes"
    /\ task.route_idx < Len(app.routes)
    /\ task' = RouteStep(task, app.routes)
    /\ response' = IF task'.pc = "respond" THEN HandlerResponse(task.route_idx) ELSE response
    /\ UNCHANGED <<serveFrame, bytes, request, buffer>>

NoRouteMatched ==
    /\ task.pc = "routes"
    /\ task.route_idx >= Len(app.routes)
    /\ response' = build(not_found)
    /\ task' = [task EXCEPT !.pc = "respond"]
    /\ UNCHANGED <<serveFrame, bytes, request, buffer>>

Respond ==
    /\ task.pc = "respond"
    /\ \E order \in IterOrders(IF response.headers = <<>> THEN {} ELSE response.headers[1]) :
          /\ task' = handle_http_response(task, response, order)
          /\ buffer' = serialize(response, <<>>, order)
    /\ UNCHANGED <<serveFrame, bytes, request, response>>

NextServe ==
    Read \/ Parse \/ CallMiddleware \/ MatchRoute \/ NoRouteMatched \/ Respond

SpecServe == InitServe /\ [][NextServe]_vars

(***************************************************************************)
(* SpecConcurrent: the application from its builder on.  The builder       *)
(* collects up to MaxMiddleware middleware and MaxRoutes routes, build     *)
(* hands them to the HoochApp, and serve accepts up to MaxTasks            *)
(* connections and spawns one handle_stream task for each.  The runtime    *)
(* polls the spawned tasks in any order, one step of one task at a time.   *)
(* pc is "builder" until build ran, then "serve".                          *)
(***************************************************************************)
MaxTasks == 2

\* HoochAppBuilder::new: no middleware, no route
HoochAppBuilderNew == [middleware |-> <<>>, routes |-> <<>>]

\* HoochAppBuilder::add_middleware and add_route: push to the end
add_middleware(builder, middleware) ==
    [builder EXCEPT !.middleware = Append(builder.middleware, middleware)]

add_route(builder, route) ==
    [builder EXCEPT !.routes = Append(builder.routes, route)]

\* HoochAppBuilder::build: the two lists, leaked, behind shared references
HoochAppBuild(builder) == [middleware |-> builder.middleware, routes |-> builder.routes]

\* the lists moved out of the application into the task that is spawned
serve_accept_moves_lists(a, ts, rs, incoming) ==
    [app |-> HoochAppBuilderNew,
     tasks |-> Append(ts, TaskNew(incoming)),
     responses |-> Append(rs, NoResponse)]

\* one turn of the accept loop of serve: the task is spawned with copies of
\* the two references; the application keeps its lists
serve_accept(a, ts, rs, incoming) ==
    [app |-> a,
     tasks |-> Append(ts, TaskNew(incoming)),
     responses |-> Append(rs, NoResponse)]

\* the runtime after it polled a task that is now t.  Neither serve nor
\* handle_stream catches a panic: it unwinds out of the task into the
\* runtime, which either drops that task alone or goes down with it (the
\* polling thread ends, or the process aborts in a panic = "abort" build)
AfterPoll(w, t) == IF t.pc = "panicked" THEN {"running", "down"} ELSE {w}

InitConcurrent ==
    /\ pc = "builder"
    /\ app = HoochAppBuilderNew
    /\ tasks = <<>>
    /\ responses = <<>>
    /\ worker = "running"
    /\ task = NoTask
    /\ bytes = NoText
    /\ request = NoRequest
    /\ response = NoResponse
    /\ buffer = <<>>
    /\ uri = NoText
    /\ cmp_uri = NoText
    /\ m = Idle
    /\ segment_part = NoText
    /\ segment = SegmentNew
    /\ header_store = HeadersNew
    /\ owned = ParamsNew
    /\ yielded = NoYield

concFrame == <<uri, cmp_uri, m, segment_part, segment, bytes, request,
               task, header_store, response, buffer, owned, yielded>>

AddMiddleware ==
    /\ pc = "builder"
    /\ Len(app.middleware) < MaxMiddleware
    /\ \E middleware \in MiddlewareKinds : app' = add_middleware(app, middleware)
    /\ UNCHANGED <<pc, connVars, concFrame>>

AddRoute ==
    /\ pc = "builder"
    /\ Len(app.routes) < MaxRoutes
    /\ \E route \in RouteInputs : app' = add_route(app, route)
    /\ UNCHANGED <<pc, connVars, concFrame>>

BuildApp ==
    /\ pc = "builder"
    /\ app' = HoochAppBuild(app)
    /\ pc' = "serve"
    /\ UNCHANGED <<connVars, concFrame>>

Accept ==
    /\ pc = "serve"
    /\ worker = "running"
    /\ Len(tasks) < MaxTasks
    /\ \E incoming \in ServeRequests :
          LET spawned == serve_accept(app, tasks, responses, incoming)
          IN  /\ app' = spawned.app
              /\ tasks' = spawned.tasks
              /\ responses' = spawned.responses
    /\ UNCHANGED <<pc, worker, concFrame>>

\* task i (1-based, in accept order) can be polled at position position
Pollable(i, position) ==
    /\ pc = "serve"
    /\ worker = "running"
    /\ tasks[i].pc = position

TaskRead ==
    \E i \in 1..Len(tasks) :
        /\ Pollable(i, "read")
        /\ tasks' = [tasks EXCEPT ![i] = ReadStream(tasks[i])]
        /\ UNCHANGED <<pc, app, responses, worker, concFrame>>

TaskParse ==
    \E i \in 1..Len(tasks) :
        /\ Pollable(i, "parse")
        /\ tasks' = [tasks EXCEPT ![i] = Parsed(tasks[i], app.middleware,
                                                from_bytes(tasks[i].buffer.data))]
        /\ worker' \in AfterPoll(worker, tasks'[i])
        /\ UNCHANGED <<pc, app, responses, concFrame>>

TaskMiddleware ==
    \E i \in 1..Len(tasks) :
        /\ Pollable(i, "middleware")
        /\ tasks' = [tasks EXCEPT ![i] = MiddlewareStep(tasks[i], app.middleware)]
        /\ responses' = [responses EXCEPT ![i] =
                            IF tasks'[i].pc = "respond"
                            THEN MiddlewareResponse(tasks[i], app.middleware)[1]
                            ELSE responses[i]]
        /\ UNCHANGED <<pc, app, worker, concFrame>>

TaskRoute ==
    \E i \in 1..Len(tasks) :
        /\ Pollable(i, "routes")
        /\ tasks[i].route_idx < Len(app.routes)
        /\ tasks' = [tasks EXCEPT ![i] = RouteStep(tasks[i], app.routes)]
        /\ responses' = [responses EXCEPT ![i] =
                            IF tasks'[i].pc = "respond"
                            THEN HandlerResponse(tasks[i].route_idx)
                            ELSE responses[i]]
        /\ worker' \in AfterPoll(worker, tasks'[i])
        /\ UNCHANGED <<pc, app, concFrame>>

TaskNotFound ==
    \E i \in 1..Len(tasks) :
        /\ Pollable(i, "routes")
        /\ tasks[i].route_idx >= Len(app.routes)
        /\ tasks' = [tasks EXCEPT ![i] = [tasks[i] EXCEPT !.pc = "respond"]]
        /\ responses' = [responses EXCEPT ![i] = build(not_found)]
        /\ UNCHANGED <<pc, app, worker, concFrame>>

TaskRespond ==
    \E i \in 1..Len(tasks) :
        /\ Pollable(i, "respond")
        /\ \E order \in IterOrders(IF responses[i].headers = <<>> THEN {}
                                   ELSE responses[i].headers[1]) :
              tasks' = [tasks EXCEPT ![i] = handle_http_response(tasks[i], responses[i], order)]
        /\ UNCHANGED <<pc, app, responses, worker, concFrame>>

NextConcurrent ==
    \/ AddMiddleware \/ AddRoute \/ BuildApp \/ Accept
    \/ TaskRead \/ TaskParse \/ TaskMiddleware \/ TaskRoute \/ TaskNotFound \/ TaskRespond

SpecConcurrent == InitConcurrent /\ [][NextConcurrent]_vars

(***************************************************************************)
(* SpecIter: a handler owns a Params and iterates it: iter_path and        *)
(* iter_query restart an iteration, next advances it, in any order and     *)
(* any number of times (up to MaxPasses restarts of each).  yielded holds, *)
(* for each segment, what next returned since the last restart, whether    *)
(* it returned None, and the number of restarts.                           *)
(***************************************************************************)
MaxEntries == 2

MaxPasses == 2

PathEntries == {<<<<"x">>, <<<<"a">>>>>>, <<<<"y">>, <<<<>>>>>>}

QueryEntries == {<<<<"a">>, <<<<"b">>>>>>, <<<<"a">>, <<>>>>, <<<<>>, <<>>>>}

RECURSIVE Filled(_, _)
Filled(seg, entries) ==
    IF entries = <<>> THEN seg
    ELSE Filled(insert_key_value(seg, Head(entries)[1], Head(entries)[2]), Tail(entries))

ParamsInputs ==
    {[path_segment |-> Filled(SegmentNew, path), query_fragment |-> Filled(SegmentNew, query)] :
        path \in SeqsUpTo(PathEntries, MaxEntries),
        query \in SeqsUpTo(QueryEntries, MaxEntries)}

NoneYielded == [items |-> <<>>, ended |-> FALSE, passes |-> 0, panicked |-> FALSE]

InitIter ==
    /\ pc = "handler"
    /\ owned \in ParamsInputs
    /\ yielded = [path |-> NoneYielded, query |-> NoneYielded]
    /\ uri = NoText
    /\ cmp_uri = NoText
    /\ m = Idle
    /\ segment_part = NoText
    /\ segment = SegmentNew
    /\ bytes = NoText
    /\ request = NoRequest
    /\ app = NoApp
    /\ task = NoTask
    /\ ConnIdle
    /\ header_store = HeadersNew
    /\ response = NoResponse
    /\ buffer = <<>>

iterFrame == <<parseVars, connVars, app, task, header_store, response, buffer>>

\* what yielded becomes when next returned r
AfterNext(y, r) ==
    CASE r.kind = "Some" -> [y EXCEPT !.items = Append(y.items, r.item)]
      [] r.kind = "None" -> [y EXCEPT !.ended = TRUE]
      [] r.kind = "Panic" -> [y EXCEPT !.panicked = TRUE]

IterPath ==
    /\ yielded.path.passes < MaxPasses
    /\ ~yielded.path.panicked
    /\ owned' = iter_path(owned)
    /\ yielded' = [yielded EXCEPT !.path = [NoneYielded EXCEPT
                                               !.passes = yielded.path.passes + 1]]
    /\ UNCHANGED iterFrame

PathNext ==
    /\ pc = "handler"
    /\ ~yielded.path.panicked
    /\ LET r == next_path(owned.path_segment)
       IN  /\ owned' = [owned EXCEPT !.path_segment = r.seg]
           /\ yielded' = [yielded EXCEPT !.path = AfterNext(yielded.path, r)]
    /\ UNCHANGED iterFrame

IterQuery ==
    /\ yielded.query.passes < MaxPasses
    /\ owned' = iter_query(owned)
    /\ yielded' = [yielded EXCEPT !.query = [NoneYielded EXCEPT
                                                !.passes = yielded.query.passes + 1]]
    /\ UNCHANGED iterFrame

QueryNext ==
    /\ pc = "handler"
    /\ LET r == next_query(owned.query_fragment)
       IN  /\ owned' = [owned EXCEPT !.query_fragment = r.seg]
           /\ yielded' = [yielded EXCEPT !.query = AfterNext(yielded.query, r)]
    /\ UNCHANGED iterFrame

NextIter == IterPath \/ PathNext \/ IterQuery \/ QueryNext

SpecIter == InitIter /\ [][NextIter]_vars

(***************************************************************************)
(* What the specification says of a match, stated without the code's       *)
(* operators: positions are 1-based here.                                  *)
(***************************************************************************)
Min(S) == CHOOSE x \in S : \A y \in S : x <= y

Occurrences(s, c) == {j \in 1..Len(s) : s[j] = c}

\* the concrete path: the URI up to its first '?'
ConcretePath(u) ==
    IF Occurrences(u, "?") = {} THEN u
    ELSE SubSeq(u, 1, Min(Occurrences(u, "?")) - 1)

\* the query string: the URI after its first '?'
QueryString(u) == SubSeq(u, Min(Occurrences(u, "?")) + 1, Len(u))

\* the pattern as tokens: one per literal character, one per placeholder
RECURSIVE TokensOf(_)
TokensOf(p) ==
    IF p = <<>> THEN <<>>
    ELSE IF Head(p) = "{"
    THEN LET close == Min(Occurrences(p, "}"))
         IN  <<[placeholder |-> TRUE, text |-> SubSeq(p, 2, close - 1)]>>
                 \o TokensOf(SubSeq(p, close + 1, Len(p)))
    ELSE <<[placeholder |-> FALSE, text |-> <<Head(p)>>]>> \o TokensOf(Tail(p))

PlaceholderNames(p) ==
    LET tokens == TokensOf(p)
    IN  SelectSeq(tokens, LAMBDA t : t.placeholder)

\* no placeholder is directly followed by another placeholder
Ordinary(p) ==
    LET tokens == TokensOf(p)
    IN  \A i \in 1..(Len(tokens) - 1) :
            ~(tokens[i].placeholder /\ tokens[i + 1].placeholder)

\* the reading of section 4.3: literal characters must be equal, a
\* placeholder takes the path up to the first occurrence of the literal
\* character that follows it, the last token takes the rest of the path
RECURSIVE Reading(_, _)
Reading(path, tokens) ==
    IF tokens = <<>> THEN [ok |-> path = <<>>, values |-> <<>>]
    ELSE IF ~Head(tokens).placeholder
    THEN IF path # <<>> /\ Head(path) = Head(tokens).text[1]
         THEN Reading(Tail(path), Tail(tokens))
         ELSE [ok |-> FALSE, values |-> <<>>]
    ELSE IF Len(tokens) = 1 THEN [ok |-> TRUE, values |-> <<path>>]
    ELSE LET stops == Occurrences(path, tokens[2].text[1])
         IN  IF tokens[2].placeholder \/ stops = {}
             THEN [ok |-> FALSE, values |-> <<>>]
             ELSE LET rest == Reading(SubSeq(path, Min(stops), Len(path)), Tail(tokens))
                  IN  [ok |-> rest.ok,
                       values |-> <<SubSeq(path, 1, Min(stops) - 1)>> \o rest.values]

LiteralsAgree(u, p) == Reading(ConcretePath(u), TokensOf(p)).ok

Returned == m.pc = "done"

(***************************************************************************)
(* C1: whenever a literal character of the pattern differs from the        *)
(* corresponding character of the concrete path (in particular in the      *)
(* literal text after the last placeholder), is_match reports no match.    *)
(* Stated for the patterns that hold a placeholder, each followed by       *)
(* literal text or by the end of the pattern (C3 is the case without       *)
(* placeholder).                                                           *)
(***************************************************************************)
C1_LiteralMismatchIsNoMatch ==
    (/\ Returned
     /\ PlaceholderNames(cmp_uri) # <<>>
     /\ Ordinary(cmp_uri)
     /\ ~LiteralsAgree(uri, cmp_uri))
        => m.ret.kind # "Some"

(***************************************************************************)
(* C2: when the literal characters of the concrete path equal those of a   *)
(* pattern with k placeholders, is_match returns a match whose path        *)
(* segment holds exactly k entries, the i-th keyed by the i-th             *)
(* placeholder's name.                                                     *)
(***************************************************************************)
KeyedInOrder(option, p) ==
    LET names == PlaceholderNames(p)
        seg == option.params.path_segment
    IN  /\ option.kind = "Some"
        /\ seg.num = Len(names)
        /\ \A i \in 1..Len(names) : seg.key[i] = <<names[i].text>>

C2_MatchHasOneEntryPerPlaceholder ==
    (Returned /\ LiteralsAgree(uri, cmp_uri)) => KeyedInOrder(m.ret, cmp_uri)

\* the same for every pattern but the empty one, which holds
C2_NonEmptyPatternHasOneEntryPerPlaceholder ==
    (Returned /\ cmp_uri # <<>> /\ LiteralsAgree(uri, cmp_uri))
        => KeyedInOrder(m.ret, cmp_uri)

(***************************************************************************)
(* C3: for a pattern without placeholder, is_match returns a match, with   *)
(* zero path entries, exactly when the concrete path equals the pattern,   *)
(* and None otherwise, with or without a query suffix.  Stated for the     *)
(* non-empty patterns.                                                     *)
(***************************************************************************)
C3_LiteralPatternMatchesEqualPathOnly ==
    (Returned /\ cmp_uri # <<>> /\ PlaceholderNames(cmp_uri) = <<>>)
        => IF ConcretePath(uri) = cmp_uri
           THEN m.ret.kind = "Some" /\ m.ret.params.path_segment.num = 0
           ELSE m.ret.kind = "None"

(***************************************************************************)
(* C4: the value captured for a placeholder is the span of the concrete    *)
(* path from the cursor up to, not including, the first character equal    *)
(* to the literal character that follows the placeholder, when the path    *)
(* holds such a character at or after the cursor; for a placeholder that   *)
(* ends the pattern it is the span from the cursor to the end of the path  *)
(* (the start of the query suffix).  cursor is the 0-based cursor_uri.idx  *)
(* before the step that captures.                                          *)
(***************************************************************************)
LastValue(seg) == seg.value[seg.num]

StopsAhead(u, c, cursor) ==
    {j \in Occurrences(ConcretePath(u), c) : j > cursor}

CapturesUpToLiteral ==
    (/\ m.pc = "loop"
     /\ m.record_uri_char
     /\ m'.path_segment.num = m.path_segment.num + 1
     /\ StopsAhead(uri, cmp_uri[m.idx + 1], m.cursor_uri.idx) # {})
        => LastValue(m'.path_segment) =
              <<SubSeq(uri, m.cursor_uri.idx + 1,
                       Min(StopsAhead(uri, cmp_uri[m.idx + 1], m.cursor_uri.idx)) - 1)>>

CapturesUpToEndOfPath ==
    (/\ m.pc = "after"
     /\ m.end_with_value
     /\ m'.ret.kind # "Panic")
        => /\ m'.ret.kind = "Some"
           /\ LastValue(m'.ret.params.path_segment) =
                 <<SubSeq(uri, m.cursor_uri.idx + 1, Len(ConcretePath(uri)))>>

C4_CapturedValueIsSpan == [][CapturesUpToLiteral /\ CapturesUpToEndOfPath]_vars

\* pattern {x}/{y} on a/a?a: x is "a", up to the '/', y is "a", up to the '?'
C4_Witness ==
    /\ Returned
    /\ cmp_uri = <<"{", "x", "}", "/", "{", "y", "}">>
    /\ uri = <<"a", "/", "a", "?", "a">>
    /\ m.ret.kind = "Some"
    /\ m.ret.params.path_segment.value = << <<<<"a">>>>, <<<<"a">>>> >>

(***************************************************************************)
(* C5: parse_segment splits the query string on '&' and each fragment at   *)
(* its first '=': a string with n '&' yields n + 1 entries in fragment     *)
(* order, duplicate keys kept; a fragment without '=' has its whole text   *)
(* as key and no value, an empty fragment the empty key and no value.      *)
(***************************************************************************)
\* the position of the i-th '&' of q; 0 before the first, Len(q) + 1 after
\* the last
Separator(q, i) ==
    LET at == Occurrences(q, "&")
    IN  IF i = 0 THEN 0
        ELSE IF i > Cardinality(at) THEN Len(q) + 1
        ELSE CHOOSE j \in at : Cardinality({k \in at : k < j}) = i - 1

Fragment(q, i) == SubSeq(q, Separator(q, i - 1) + 1, Separator(q, i) - 1)

KeyOfFragment(f) ==
    IF Occurrences(f, "=") = {} THEN f ELSE SubSeq(f, 1, Min(Occurrences(f, "=")) - 1)

ValueOfFragment(f) ==
    IF Occurrences(f, "=") = {} THEN <<>>
    ELSE <<SubSeq(f, Min(Occurrences(f, "=")) + 1, Len(f))>>

HoldsEntriesOf(seg, q) ==
    /\ ~seg.oob
    /\ seg.num = Cardinality(Occurrences(q, "&")) + 1
    /\ \A i \in 1..seg.num :
          /\ seg.key[i] = <<KeyOfFragment(Fragment(q, i))>>
          /\ seg.value[i] = ValueOfFragment(Fragment(q, i))

C5_QueryEntries == pc = "returned" => HoldsEntriesOf(segment, segment_part)

\* a=b&&a: a value, an empty fragment, and the key a a second time, bare
C5_Witness ==
    /\ pc = "returned"
    /\ segment_part = <<"a", "=", "b", "&", "&", "a">>
    /\ segment.num = 3
    /\ segment.key = << <<<<"a">>>>, <<<<>>>>, <<<<"a">>>> >>
    /\ segment.value = << <<<<"b">>>>, <<>>, <<>> >>

(***************************************************************************)
(* C6: a match for a URI that contains '?' carries, as its query segment,  *)
(* the entries of the text after the first '?'.  Stated for the non-empty  *)
(* patterns and the URIs whose path agrees with the pattern.               *)
(***************************************************************************)
C6_QueryIsTextAfterFirstMark ==
    (/\ Returned
     /\ cmp_uri # <<>>
     /\ LiteralsAgree(uri, cmp_uri)
     /\ m.ret.kind = "Some"
     /\ Occurrences(uri, "?") # {})
        => HoldsEntriesOf(m.ret.params.query_fragment, QueryString(uri))

(***************************************************************************)
(* What the specification says of a request on the wire.                   *)
(***************************************************************************)
MethodValue(token) ==
    IF token = <<"G", "E", "T">> THEN "GET" ELSE "POST"

RequestLine(method, u) == Join(<<method, u, Http11>>, <<" ">>)

WellFormedHeaderBlocks == SeqsUpTo(GoodHeaderLines, MaxHeaderLines)

KeyOfLine(line) == SubSeq(line, 1, Min(Occurrences(line, ":")) - 1)

ValueOfLine(line) ==
    LET colon == Min(Occurrences(line, ":"))
    IN  IF colon < Len(line) /\ line[colon + 1] = " "
        THEN SubSeq(line, colon + 2, Len(line))
        ELSE SubSeq(line, colon + 1, Len(line))

(***************************************************************************)
(* C7: for every well-formed input, from_bytes yields the method of the    *)
(* first token, the second token verbatim as URI, version 1.1, and as      *)
(* body all bytes after the first CRLFCRLF.                                *)
(***************************************************************************)
C7_WellFormedRequestParses ==
    pc = "returned" =>
        \A method \in MethodTokens, u \in UriTokens,
           hs \in WellFormedHeaderBlocks, body \in BodyInputs :
            bytes = Wire(RequestLine(method, u), hs, body)
                => /\ request.kind = "Ok"
                   /\ request.method = MethodValue(method)
                   /\ request.uri = u
                   /\ request.version = "OnePointOne"
                   /\ request.body = body

\* the same for the inputs with at least one header line, none of them
\* ending in its colon, which holds
C7_ParsesWhenHeadersParse ==
    pc = "returned" =>
        \A method \in MethodTokens, u \in UriTokens,
           hs \in WellFormedHeaderBlocks, body \in BodyInputs :
            (/\ bytes = Wire(RequestLine(method, u), hs, body)
             /\ hs # <<>>
             /\ \A i \in 1..Len(hs) : hs[i][Len(hs[i])] # ":")
                => /\ request.kind = "Ok"
                   /\ request.method = MethodValue(method)
                   /\ request.uri = u
                   /\ request.version = "OnePointOne"
                   /\ request.body = body

(***************************************************************************)
(* C8: a header block of n >= 1 lines is stored as exactly n entries in    *)
(* line order: the key is the text before the line's first colon, the      *)
(* value the text after it with one leading space skipped if present.      *)
(***************************************************************************)
C8_HeaderEntriesInLineOrder ==
    pc = "returned" =>
        \A line \in GoodRequestLines, hs \in WellFormedHeaderBlocks,
           body \in BodyInputs :
            (hs # <<>> /\ bytes = Wire(line, hs, body))
                => /\ request.kind = "Ok"
                   /\ request.headers.num = Len(hs)
                   /\ \A i \in 1..Len(hs) :
                         /\ request.headers.keys[i] = <<KeyOfLine(hs[i])>>
                         /\ request.headers.values[i] = <<ValueOfLine(hs[i])>>

(***************************************************************************)
(* C9: a request whose header block is empty parses to a request with      *)
(* zero headers and with the bytes after the blank line as body.           *)
(***************************************************************************)
C9_EmptyHeaderBlockParses ==
    pc = "returned" =>
        \A line \in GoodRequestLines, body \in BodyInputs :
            bytes = Wire(line, <<>>, body)
                => /\ request.kind = "Ok"
                   /\ request.headers.num = 0
                   /\ request.body = body

(***************************************************************************)
(* C10: for an input that is not a well-formed request (no CRLF, fewer     *)
(* than three request-line tokens, a method or version outside the         *)
(* enumerations, a header line without colon) from_bytes ends with an      *)
(* error value; it does not abort (panic).                                 *)
(***************************************************************************)
ListedBadRequestLines ==
    {line \in BadRequestLines :
        \/ Len(Split(line, " ")) < 3
        \/ Split(line, " ")[1] \notin MethodTokens
        \/ Split(line, " ")[3] # Http11}

Malformed(b) ==
    \/ b \in RequestLineInputs
    \/ \E line \in ListedBadRequestLines, hs \in HeaderBlockInputs, body \in BodyInputs :
          b = Wire(line, hs, body)
    \/ \E line \in GoodRequestLines, hs \in HeaderBlockInputs, body \in BodyInputs :
          /\ b = Wire(line, hs, body)
          /\ \E i \in 1..Len(hs) : hs[i] \in BadHeaderLines

C10_MalformedInputIsAnErrorValue ==
    (pc = "returned" /\ Malformed(bytes)) => request.kind # "Panic"

(***************************************************************************)
(* C11: a request line that splits on single spaces into more than three   *)
(* tokens is rejected: from_bytes yields a request only for a line of      *)
(* exactly three tokens.                                                   *)
(***************************************************************************)
RequestLineOf(b) ==
    LET ends == {i \in 1..(Len(b) - 1) : b[i] = "\r" /\ b[i + 1] = "\n"}
    IN  IF ends = {} THEN b ELSE SubSeq(b, 1, Min(ends) - 1)

TokenCount(line) == Cardinality(Occurrences(line, " ")) + 1

C11_OnlyThreeTokensParse ==
    (pc = "returned" /\ request.kind = "Ok") => TokenCount(RequestLineOf(bytes)) = 3

(***************************************************************************)
(* C12: the count of the header store never exceeds 1000 and that of a     *)
(* parameter segment never exceeds 1024; an insertion attempted at         *)
(* capacity does not abort: it leaves the entries and the count as they    *)
(* were.                                                                   *)
(***************************************************************************)
CountWithinCapacity ==
    /\ header_store.num <= MAX_NUM_HEADERS
    /\ segment.num <= SegmentCapacity

C12_InsertionAtCapacityIsAnErrorValue ==
    /\ CountWithinCapacity
    /\ ~header_store.oob
    /\ ~segment.oob

(***************************************************************************)
(* C19: serialize appends to the buffer exactly the status line            *)
(* "<version> <code> <reason>" CRLF (version HTTP/1.1 when none was set),  *)
(* one line "<key>: <value>" CRLF for each header of the response, once    *)
(* each, a blank CRLF, and the body verbatim; nothing else.                *)
(***************************************************************************)
CodeAndReason(status) ==
    CASE status = "Ok" ->
            <<"2", "0", "0", " ", "O", "K">>
      [] status = "Created" ->
            <<"2", "0", "1", " ", "C", "r", "e", "a", "t", "e", "d">>
      [] status = "NoContent" ->
            <<"2", "0", "4", " ", "N", "o", " ", "C", "o", "n", "t", "e", "n", "t">>
      [] status = "BadRequest" ->
            <<"4", "0", "0", " ", "B", "a", "d", " ", "R", "e", "q", "u", "e", "s", "t">>
      [] status = "Unauthorized" ->
            <<"4", "0", "1", " ", "U", "n", "a", "u", "t", "h", "o", "r", "i", "z", "e", "d">>
      [] status = "Forbidden" ->
            <<"4", "0", "3", " ", "F", "o", "r", "b", "i", "d", "d", "e", "n">>
      [] status = "NotFound" ->
            <<"4", "0", "4", " ", "N", "o", "t", " ", "F", "o", "u", "n", "d">>
      [] status = "InternalServerError" ->
            <<"5", "0", "0", " ", "I", "n", "t", "e", "r", "n", "a", "l", " ", "S", "e", "r", "v", "e", "r", " ", "E", "r", "r", "o", "r">>
      [] status = "BadGateway" ->
            <<"5", "0", "2", " ", "B", "a", "d", " ", "G", "a", "t", "e", "w", "a", "y">>
      [] status = "ServiceUnavailable" ->
            <<"5", "0", "3", " ", "S", "e", "r", "v", "i", "c", "e", " ", "U", "n", "a", "v", "a", "i", "l", "a", "b", "l", "e">>

\* the lines of the headers taken in the order i |-> entries[i]
RECURSIVE LinesOf(_)
LinesOf(entries) ==
    IF entries = <<>> THEN <<>>
    ELSE Head(entries)[1] \o <<":", " ">> \o Head(entries)[2] \o <<"\r", "\n">>
             \o LinesOf(Tail(entries))

WireText(resp, entries) ==
    <<"H", "T", "T", "P", "/", "1", ".", "1", " ">> \o CodeAndReason(resp.status)
        \o <<"\r", "\n">> \o LinesOf(entries) \o <<"\r", "\n">>
        \o (IF resp.body = <<>> THEN <<>> ELSE resp.body[1])

EachOnce(entries, map) ==
    /\ Len(entries) = Cardinality(map)
    /\ \A e \in map : \E i \in 1..Len(entries) : entries[i] = e

C19_SerializeEmitsExactly ==
    [][(pc = "serialize" /\ pc' = "returned") =>
          LET map == IF response.headers = <<>> THEN {} ELSE response.headers[1]
          IN  \E entries \in [1..Cardinality(map) -> map] :
                  /\ EachOnce(entries, map)
                  /\ buffer' = buffer \o WireText(response, entries)]_vars

\* an OK response with body "hi" and no headers: HTTP/1.1 200 OK CRLF CRLF hi
C19_Witness ==
    /\ pc = "returned"
    /\ response = build(with_body(BuilderNew("Ok"), <<"h", "i">>))
    /\ buffer = <<"H", "T", "T", "P", "/", "1", ".", "1", " ", "2", "0", "0", " ",
                  "O", "K", "\r", "\n", "\r", "\n", "h", "i">>

\* a response with two headers was serialized
C19_WitnessHeaders ==
    /\ pc = "returned"
    /\ response.headers = << {<<<<"A">>, <<"1">>>>, <<<<"B", "b">>, <<>>>>} >>
    /\ Len(buffer) > Len(WireText(response, <<>>))

(***************************************************************************)
(* What the specification says of the dispatcher.  Positions are 1-based.  *)
(***************************************************************************)
\* the request that middleware k returned, the parsed request for k = 0
RECURSIVE Continued(_, _, _)
Continued(kinds, req, k) ==
    IF k = 0 THEN req
    ELSE MiddlewareOutcome(kinds[k], Continued(kinds, req, k - 1)).req

AllContinue(kinds) == \A i \in 1..Len(kinds) : kinds[i] # "ShortCircuit"

\* every middleware continued and the routes are being, or were, tried
Routing ==
    /\ request.kind = "Ok"
    /\ AllContinue(app.middleware)
    /\ task.pc \in {"routes", "respond", "done", "panicked"}

FinalRequest == Continued(app.middleware, request, Len(app.middleware))

\* the routes (1-based) whose pattern matches the path and whose method is
\* the request's
Winners(req) ==
    {i \in 1..Len(app.routes) :
        /\ LiteralsAgree(req.uri, app.routes[i].path)
        /\ app.routes[i].method = req.method}

Forbidden403 ==
    <<"H", "T", "T", "P", "/", "1", ".", "1", " ", "4", "0", "3", " ",
      "F", "o", "r", "b", "i", "d", "d", "e", "n", "\r", "\n", "\r", "\n", "n", "o">>

NotFound404 ==
    <<"H", "T", "T", "P", "/", "1", ".", "1", " ", "4", "0", "4", " ",
      "N", "o", "t", " ", "F", "o", "u", "n", "d", "\r", "\n", "\r", "\n">>

(***************************************************************************)
(* C13: when middleware i returns ShortCircuit(response), no middleware    *)
(* after i is invoked, no route is matched, no handler is invoked, and     *)
(* what is written to the connection is that response and nothing else.    *)
(***************************************************************************)
C13_ShortCircuitSkipsTheRest ==
    \A k \in 1..Len(task.mid_calls) :
        app.middleware[k] = "ShortCircuit"
            => /\ Len(task.mid_calls) = k
               /\ task.matched = <<>>
               /\ task.handler_calls = <<>>
               /\ task.pc \in {"respond", "done"}
               /\ task.stream.written = IF task.pc = "done" THEN <<Forbidden403>> ELSE <<>>

\* the first of two middleware short-circuited, a route would have matched
C13_Witness ==
    /\ task.pc = "done"
    /\ app.middleware = <<"ShortCircuit", "Continue">>
    /\ app.routes = <<[path |-> <<"/">>, method |-> "GET"]>>
    /\ request.uri = <<"/">>
    /\ request.method = "GET"
    /\ task.stream.written = <<Forbidden403>>

(***************************************************************************)
(* C14: middleware are invoked in registration order, each at most once;   *)
(* the first receives the parsed request, middleware i+1 the request that  *)
(* middleware i returned with Continue; once all have continued, the       *)
(* request matched against the routes and handed to the handler is the     *)
(* one the last middleware returned.                                       *)
(***************************************************************************)
C14_MiddlewareChainPassesTheRequest ==
    /\ Len(task.mid_calls) <= Len(app.middleware)
    /\ \A k \in 1..Len(task.mid_calls) :
          /\ task.mid_calls[k].mid = k - 1
          /\ task.mid_calls[k].req = Continued(app.middleware, request, k - 1)
    /\ \A j \in 1..Len(task.matched) :
          /\ Len(task.mid_calls) = Len(app.middleware)
          /\ task.matched[j].uri = FinalRequest.uri
    /\ \A j \in 1..Len(task.handler_calls) : task.handler_calls[j].req = FinalRequest

\* SetPost then Continue: the handler of a POST route got the GET request
\* as rewritten
C14_Witness ==
    /\ task.pc = "done"
    /\ app.middleware = <<"SetPost", "Continue">>
    /\ request.method = "GET"
    /\ Len(task.mid_calls) = 2
    /\ task.mid_calls[2].req.method = "POST"
    /\ Len(task.handler_calls) = 1
    /\ task.handler_calls[1].req.method = "POST"

(***************************************************************************)
(* C15: after all middleware continue, the handler invoked is that of the  *)
(* first route, in registration order, whose pattern matches the           *)
(* request's path and whose method is the request's; no other route's      *)
(* handler is invoked.  Stated for the requests that some route matches    *)
(* (C16 is the case of none).                                              *)
(***************************************************************************)
C15_FirstMatchingRouteWins ==
    (Routing /\ Winners(FinalRequest) # {}) =>
        /\ \A j \in 1..Len(task.handler_calls) :
              task.handler_calls[j].route + 1 = Min(Winners(FinalRequest))
        /\ Len(task.handler_calls) <= 1
        /\ task.pc = "done" => Len(task.handler_calls) = 1

\* the same with "matches" read as "is_match returns Some", for the tasks
\* that did not panic: the route loop itself takes the first such route
IsMatchWinners(req) ==
    {i \in 1..Len(app.routes) :
        /\ is_match(req.uri, app.routes[i].path).kind = "Some"
        /\ app.routes[i].method = req.method}

C15_FirstRouteByIsMatchWins ==
    (Routing /\ task.pc # "panicked") =>
        /\ \A j \in 1..Len(task.handler_calls) :
              /\ IsMatchWinners(FinalRequest) # {}
              /\ task.handler_calls[j].route + 1 = Min(IsMatchWinners(FinalRequest))
        /\ Len(task.handler_calls) <= 1
        /\ (task.pc = "done" /\ IsMatchWinners(FinalRequest) # {})
              => Len(task.handler_calls) = 1

(***************************************************************************)
(* C16: a request whose path and method match no registered route, after   *)
(* middleware that only continue, gets the default 404 Not Found response  *)
(* and no handler is invoked.                                              *)
(***************************************************************************)
C16_NoRouteIsNotFound ==
    (Routing /\ Winners(FinalRequest) = {}) =>
        /\ task.handler_calls = <<>>
        /\ task.pc = "done" => task.stream.written = <<NotFound404>>

(***************************************************************************)
(* C17: on every path through the dispatcher (short-circuit, matched       *)
(* route, no route matched) the task reads from the connection exactly     *)
(* once and writes exactly once; no path reads or writes twice.            *)
(***************************************************************************)
C17_OneReadOneWrite ==
    /\ task.stream.reads = IF task.pc = "read" THEN 0 ELSE 1
    /\ Len(task.stream.written) = IF task.pc = "done" THEN 1 ELSE 0
    /\ task.pc = "done" => task.stream.written = <<buffer>>

\* a task ended on each of the three paths is reached: here the matched
\* route, after two middleware
C17_Witness ==
    /\ task.pc = "done"
    /\ Len(task.mid_calls) = 2
    /\ Len(task.handler_calls) = 1
    /\ task.stream.reads = 1
    /\ Len(task.stream.written) = 1

(***************************************************************************)
(* C18: when parsing the request fails, the task still writes an error     *)
(* response to the connection before it ends.                              *)
(***************************************************************************)
C18_ParseFailureIsAnswered ==
    (request.kind = "Panic" /\ task.pc \in {"done", "panicked"})
        => Len(task.stream.written) = 1

(***************************************************************************)
(* C20: requesting the path or the query sequence again (iter_path,        *)
(* iter_query), after any partial or complete iteration, yields the same   *)
(* sequence as before: all stored entries, in insertion order, exactly     *)
(* the stored count of them; no stored entry is lost.                      *)
(***************************************************************************)
\* the first n stored entries of a path segment, and of a query segment
PathStored(seg, n) == [i \in 1..n |-> <<seg.key[i][1], seg.value[i][1]>>]

QueryStored(seg, n) == [i \in 1..n |-> <<seg.key[i][1], seg.value[i]>>]

SameStore(seg1, seg2) ==
    /\ seg1.key = seg2.key
    /\ seg1.value = seg2.value
    /\ seg1.num = seg2.num

\* after a restart the items returned so far are the first stored entries,
\* and all of them once next has returned None
YieldsStored(y, stored(_), num) ==
    /\ ~y.panicked
    /\ y.passes > 0 =>
          /\ Len(y.items) <= num
          /\ y.items = stored(Len(y.items))
          /\ y.ended => y.items = stored(num)

C20_IterationRestarts ==
    [][/\ SameStore(owned'.path_segment, owned.path_segment)
       /\ SameStore(owned'.query_fragment, owned.query_fragment)
       /\ YieldsStored(yielded'.path, LAMBDA n : PathStored(owned.path_segment, n),
                       owned.path_segment.num)
       /\ YieldsStored(yielded'.query, LAMBDA n : QueryStored(owned.query_fragment, n),
                       owned.query_fragment.num)]_vars

\* a second complete pass over two path entries, after a first one
C20_Witness ==
    /\ pc = "handler"
    /\ owned.path_segment.num = 2
    /\ yielded.path.passes = 2
    /\ yielded.path.ended
    /\ yielded.path.items = << <<<<"x">>, <<"a">>>>, <<<<"y">>, <<>>>> >>
    /\ owned.query_fragment.num = 2
    /\ yielded.query.passes = 2
    /\ yielded.query.ended
    /\ Len(yielded.query.items) = 2

(***************************************************************************)
(* C21: once HoochAppBuilder::build has run, the route table and the       *)
(* middleware list are never modified: accepting and handling any number   *)
(* of connections, one after the other or interleaved, leaves both         *)
(* unchanged in content and order.                                         *)
(***************************************************************************)
C21_BuiltListsAreNeverModified == [][pc = "serve" => app' = app]_vars

\* one connection was answered and a second one is being routed, by an
\* application of two middleware and two routes
C21_Witness ==
    /\ pc = "serve"
    /\ Len(app.middleware) = 2
    /\ Len(app.routes) = 2
    /\ Len(tasks) = 2
    /\ tasks[1].pc = "done"
    /\ tasks[2].pc = "routes"
    /\ tasks[2].route_idx = 1

(***************************************************************************)
(* C22: in every state of a connection task in which a view derived from   *)
(* its read buffer exists (the request's URI, headers and body, handed to  *)
(* the middleware and the handler), the buffer is still live and holds     *)
(* what was read; the buffer belongs to the task of that one connection    *)
(* and ends only with the task, after the response was written.            *)
(***************************************************************************)
\* the request was parsed out of the buffer and handle_stream has not ended
ViewsInUse(t) == t.pc \in {"middleware", "routes", "respond"}

ViewsAreOf(t) ==
    LET parsed == from_bytes(t.buffer.data)
    IN  /\ t.http_request.uri = parsed.uri
        /\ t.http_request.headers = parsed.headers
        /\ t.http_request.body = parsed.body

RECURSIVE Alone(_, _)
Alone(t, r) ==
    CASE t.pc = "read" -> Alone(ReadStream(t), r)
      [] t.pc = "parse" ->
            Alone(Parsed(t, app.middleware, from_bytes(t.buffer.data)), r)
      [] t.pc = "middleware" ->
            LET t2 == MiddlewareStep(t, app.middleware)
            IN  Alone(t2, IF t2.pc = "respond"
                          THEN MiddlewareResponse(t, app.middleware)[1] ELSE r)
      [] t.pc = "routes" ->
            IF t.route_idx < Len(app.routes)
            THEN LET t2 == RouteStep(t, app.routes)
                 IN  Alone(t2, IF t2.pc = "respond" THEN HandlerResponse(t.route_idx) ELSE r)
            ELSE Alone([t EXCEPT !.pc = "respond"], build(not_found))
      [] t.pc = "respond" -> handle_http_response(t, r, <<>>)
      [] OTHER -> t

AloneEnd(i) == Alone(TaskNew(tasks[i].stream.incoming), NoResponse)

\* what was written is what the connection gets alone, and a task fails
\* only where it fails alone
AnsweredAsAlone(i) ==
    /\ tasks[i].pc = "done" => tasks[i].stream.written = AloneEnd(i).stream.written
    /\ tasks[i].pc = "panicked" => AloneEnd(i).pc = "panicked"

\* a task that responds alone has responded or can still be polled
NotPrevented(i) ==
    (AloneEnd(i).pc = "done" /\ tasks[i].pc # "done") => worker = "running"

C23_InterleavingChangesNoResponse ==
    pc = "serve" => \A i \in 1..Len(tasks) : AnsweredAsAlone(i)

(***************************************************************************)
(* C24: every connection task that has read a request eventually writes a  *)
(* response, given that every middleware and handler returns: the pass     *)
(* read, parse, middleware, route, respond runs to its end, and there is   *)
(* no state from which the response is never sent.                         *)
(***************************************************************************)
\* handle_stream has ended, by its return or by a panic
Ended(t) == t.pc \in {"done", "panicked"}

C24_EveryEndedTaskHasResponded ==
    (task.stream.reads = 1 /\ Ended(task)) => Len(task.stream.written) = 1

\* how far the pass has come: every step of the task moves it forward, so
\* the pass has no retry and ends, which holds
Rank(t) ==
    CASE t.pc = "read" -> 0
      [] t.pc = "parse" -> 1
      [] t.pc = "middleware" -> 2 + t.mid_idx
      [] t.pc = "routes" -> 3 + MaxMiddleware + t.route_idx
      [] t.pc = "respond" -> 4 + MaxMiddleware + MaxRoutes
      [] OTHER -> 5 + MaxMiddleware + MaxRoutes

C24_EveryStepMovesForward == [][Rank(task') > Rank(task)]_vars

(***************************************************************************)
(* C25: when the loop of is_match reaches a '{', the literal text of the   *)
(* pattern since the last placeholder (or the start) is compared with the  *)
(* span of the concrete path at the cursor; when the two differ the call   *)
(* returns None in that step, whatever was captured before and with or     *)
(* without a query suffix.                                                 *)
(***************************************************************************)
\* the 1-based positions of the '}' before the 0-based index idx
ClosedBefore(p, idx) == {j \in Occurrences(p, "}") : j <= idx}

\* the literal text of the pattern between the last '}' and the index idx
LiteralSince(p, idx) ==
    IF ClosedBefore(p, idx) = {} THEN SubSeq(p, 1, idx)
    ELSE SubSeq(p, (CHOOSE j \in ClosedBefore(p, idx) :
                       \A k \in ClosedBefore(p, idx) : k <= j) + 1, idx)

\* the text of the path from the 0-based index from, at most n characters
PathSpan(u, from, n) ==
    SubSeq(ConcretePath(u), from + 1, Min({from + n, Len(ConcretePath(u))}))

\* the loop is about to read a '{' that follows literal text
AtBracket ==
    /\ m.pc = "loop"
    /\ cmp_uri[m.idx + 1] = "{"
    /\ ~m.record_uri_char

LiteralDiffers ==
    LiteralSince(cmp_uri, m.idx)
        # PathSpan(uri, m.cursor_uri.start_idx, Len(LiteralSince(cmp_uri, m.idx)))

C25_LiteralMismatchAtBracketReturnsNone ==
    [][(AtBracket /\ LiteralDiffers) => (m'.pc = "done" /\ m'.ret.kind = "None")]_vars

\* the same for the span of the whole URI, query suffix included, when the
\* URI is long enough to hold the span, which holds
C25_MismatchWithinTheUriReturnsNone ==
    [][(/\ AtBracket
        /\ m.cursor_uri.idx <= Len(uri)
        /\ LiteralSince(cmp_uri, m.idx)
              # SubSeq(uri, m.cursor_uri.start_idx + 1, m.cursor_uri.idx))
           => (m'.pc = "done" /\ m'.ret.kind = "None")]_vars

(***************************************************************************)
(* C26: is_match is total: for every URI and every pattern the call        *)
(* returns a match or None; it never reads a span outside its text.        *)
(***************************************************************************)
C26_IsMatchIsTotal == Returned => m.ret.kind \in {"Some", "None"}

(***************************************************************************)
(* C27: no path value that is_match captured holds a '?' (or anything of   *)
(* the query suffix): every captured value is text of the concrete path.   *)
(***************************************************************************)
CapturedValues(seg) ==
    {seg.value[i][1] : i \in {j \in 1..Len(seg.value) : j <= seg.num /\ seg.value[j] # <<>>}}

C27_NoCapturedValueHoldsAQuestionMark ==
    (Returned /\ m.ret.kind = "Some")
        => \A v \in CapturedValues(m.ret.params.path_segment) : ~Contains(v, "?")

(***************************************************************************)
(* C28: a header line whose colon is its last byte parses to the entry     *)
(* with the text before the colon as key and the empty text as value; the  *)
(* parser ends normally on a request that holds such a line.               *)
(***************************************************************************)
EndsInColon(line) == line # <<>> /\ line[Len(line)] = ":" /\ Occurrences(line, ":") = {Len(line)}

C28_ColonLastGivesEmptyValue ==
    pc = "returned" =>
        \A line \in GoodRequestLines, hs \in WellFormedHeaderBlocks,
           body \in BodyInputs :
            (/\ bytes = Wire(line, hs, body)
             /\ \E i \in 1..Len(hs) : EndsInColon(hs[i]))
                => /\ request.kind = "Ok"
                   /\ \A i \in 1..Len(hs) :
                         EndsInColon(hs[i])
                            => /\ request.headers.keys[i] = <<SubSeq(hs[i], 1, Len(hs[i]) - 1)>>
                               /\ request.headers.values[i] = << <<>> >>

(***************************************************************************)
(* C29: every counted entry of the path segment of a Params that is_match  *)
(* returned holds a key and a value, so that iterating the path segment    *)
(* to its end never fails.                                                 *)
(***************************************************************************)
\* next called n times at most on seg: did one of the calls panic
RECURSIVE IterationFails(_, _)
IterationFails(seg, n) ==
    LET r == next_path(seg)
    IN  IF r.kind = "Panic" THEN TRUE
        ELSE IF r.kind = "None" \/ n = 0 THEN FALSE
        ELSE IterationFails(r.seg, n - 1)

EntriesPresent(seg) ==
    /\ Len(seg.key) >= seg.num
    /\ Len(seg.value) >= seg.num
    /\ \A i \in 1..seg.num : seg.key[i] # <<>> /\ seg.value[i] # <<>>

C29_PathEntriesHoldKeyAndValue ==
    (Returned /\ m.ret.kind # "Panic")
        => /\ EntriesPresent(m.ret.params.path_segment)
           /\ EntriesPresent(m.path_segment)
           /\ ~IterationFails(iter_path(m.ret.params).path_segment,
                              m.ret.params.path_segment.num)

\* pattern {x}/{y} on a/a: two entries, both with key and value
C29_Witness ==
    /\ Returned
    /\ m.ret.kind = "Some"
    /\ m.ret.params.path_segment.num = 2
    /\ IterationFails(m.ret.params.path_segment, 2) = FALSE

(***************************************************************************)
(* C30: the Params handed to a handler are exactly those of matching the   *)
(* request URI against the pattern of that handler's own route: every      *)
(* attempt starts from empty segments, so nothing captured against an      *)
(* earlier route that was not selected appears in them.                    *)
(***************************************************************************)
\* the keys of the counted path entries are the first placeholder names of p
KeyedBy(seg, p) ==
    /\ seg.num <= Len(PlaceholderNames(p))
    /\ \A i \in 1..seg.num : seg.key[i] = <<PlaceholderNames(p)[i].text>>

OwnMatch(call) ==
    LET own == is_match(call.req.uri, app.routes[call.route + 1].path)
    IN  /\ own.kind = "Some"
        /\ call.params = own.params
        /\ KeyedBy(call.params.path_segment, app.routes[call.route + 1].path)

C30_HandlerGetsItsOwnMatch ==
    \A j \in 1..Len(task.handler_calls) : OwnMatch(task.handler_calls[j])

\* the second route was selected after the first one captured a different
\* value and was passed over for its method
C30_Witness ==
    /\ task.pc = "done"
    /\ Len(task.handler_calls) = 1
    /\ task.handler_calls[1].route = 1
    /\ task.handler_calls[1].params.path_segment.num = 1
    /\ LET earlier == is_match(task.handler_calls[1].req.uri, app.routes[1].path)
       IN  /\ earlier.kind = "Some"
           /\ earlier.params.path_segment.num = 1
           /\ earlier.params.path_segment.value
                 # task.handler_calls[1].params.path_segment.value

====
